---- MODULE Spec2Model ----
(***************************************************************************)
(* A model of fluxpart's flux-variance-similarity partitioning             *)
(* (src/fluxpart/partition.py): findroot, flux_ratio, _mass_fluxes,       *)
(* _isvalid_root, _isvalid_partition, _adjust_fluxes, fvspart_interval,    *)
(* fvspart_series and the progressive retry loop fvspart_progressive; and  *)
(* of the high-frequency data object HFData (src/fluxpart/hfdata.py): its  *)
(* quality control cleanse, and correct_external, truncate_pow2 and        *)
(* __setitem__, which change its dataframe too.                            *)
(*                                                                         *)
(* Numbers.  The program computes in IEEE 754 double precision, with       *)
(* Python floats and numpy float64 scalars, and so does the model: a       *)
(* number is a double, given by its sign, its 53-bit significand and its   *)
(* binary exponent, or an infinity or NaN; +, -, *, / and math.sqrt give   *)
(* the exact result rounded to the nearest double, ties to even, and each  *)
(* expression of the program is computed in the order in which Python      *)
(* evaluates it.  x ** 2 is pow(x, 2.0) of the C library, computed as its   *)
(* instructions compute it: for some x it is one unit in the last place    *)
(* away from the rounded exact square.  A number                           *)
(* carries its type: a division by zero between Python floats raises       *)
(* ZeroDivisionError, one with a numpy float64 operand gives +-inf or NaN, *)
(* and math.sqrt of a negative number raises ValueError; an exception is   *)
(* the outcome of the expression that raised it and of every expression    *)
(* computed from it, and ends the call.                                    *)
(***************************************************************************)
EXTENDS Integers, Sequences, FiniteSets, TLC

Abs(i) == IF i < 0 THEN -i ELSE i

Max(i, j) == IF i >= j THEN i ELSE j

(***************************************************************************)
(* The order of the statements.  The(S) is the element of a set S of one   *)
(* element, so that The({f(v) : v \in {e}}) is f(e); it is written where   *)
(* the program assigns e to a name in one statement and uses the name in   *)
(* the statements after it: e is computed first, and once.                 *)
(***************************************************************************)
The(S) == CHOOSE x \in S : TRUE

(***************************************************************************)
(* Naturals of any size.  The significands of doubles, and their products, *)
(* quotients and square roots before rounding, do not fit the integers of  *)
(* the model checker: a natural is the sequence of its digits in base      *)
(* 2^LimbBits, least significant first and without leading zeros (zero is  *)
(* the empty sequence).                                                    *)
(***************************************************************************)
LimbBits == 14

Base == 2 ^ LimbBits

Limb(a, i) == IF i >= 1 /\ i <= Len(a) THEN a[i] ELSE 0

\* a without its leading zeros (the digits at the end of the sequence)
Trim(a) ==
    SubSeq(a, 1, CHOOSE n \in 0..Len(a) :
                     (n = 0 \/ a[n] # 0) /\ \A i \in (n + 1)..Len(a) : a[i] = 0)

RECURSIVE Big(_)
Big(v) == IF v = 0 THEN << >> ELSE <<v % Base>> \o Big(v \div Base)

\* The digits of the sum of cols[j] * Base^(j-1) over j >= i, plus c; the
\* entries of cols need not be digits, and may be negative when the sum is
\* not.
RECURSIVE Carried(_, _, _)
Carried(cols, i, c) ==
    IF i > Len(cols) THEN Big(c)
    ELSE <<(cols[i] + c) % Base>> \o Carried(cols, i + 1, (cols[i] + c) \div Base)

NatAdd(a, b) ==
    Carried([i \in 1..Max(Len(a), Len(b)) |-> Limb(a, i) + Limb(b, i)] \o << >>, 1, 0)

\* a - b for a >= b
NatSub(a, b) == Trim(Carried([i \in 1..Len(a) |-> a[i] - Limb(b, i)] \o << >>, 1, 0))

RECURSIVE CmpFrom(_, _, _)
CmpFrom(a, b, i) ==
    IF i = 0 THEN 0
    ELSE IF a[i] # b[i] THEN (IF a[i] < b[i] THEN -1 ELSE 1)
    ELSE CmpFrom(a, b, i - 1)

NatCmp(a, b) ==
    IF Len(a) # Len(b) THEN (IF Len(a) < Len(b) THEN -1 ELSE 1)
    ELSE CmpFrom(a, b, Len(a))

\* a * x for a limb x
NatTimes(a, x) == Trim(Carried([i \in 1..Len(a) |-> a[i] * x] \o << >>, 1, 0))

\* a * Base
ShiftLimb(a) == IF a = << >> THEN a ELSE <<0>> \o a

\* a * b, for a of at most four limbs: the coefficient of Base^(k-1) in the
\* product is the sum of the a[i] * b[k+1-i].
NatMul(a, b) ==
    Trim(Carried([k \in 1..(Len(b) + 3) |->
                     Limb(a, 1) * Limb(b, k) + Limb(a, 2) * Limb(b, k - 1)
                     + Limb(a, 3) * Limb(b, k - 2) + Limb(a, 4) * Limb(b, k - 3)] \o << >>,
                 1, 0))

\* a * 2^n, that is a * Base^q * 2^r with r < LimbBits
NatShl(a, n) ==
    IF a = << >> THEN a
    ELSE The({Trim([i \in 1..(Len(a) + qr[1] + 1) |->
                       (Limb(a, i - qr[1]) % 2 ^ (LimbBits - qr[2])) * 2 ^ qr[2]
                       + Limb(a, i - qr[1] - 1) \div 2 ^ (LimbBits - qr[2])]) :
                 qr \in {<<n \div LimbBits, n % LimbBits>>}})

\* a \div 2^n, that is a \div (Base^q * 2^r) with r < LimbBits
NatShr(a, n) ==
    The({Trim([i \in 1..(Len(a) - qr[1]) |->
                  Limb(a, i + qr[1]) \div 2 ^ qr[2]
                  + (Limb(a, i + qr[1] + 1) % 2 ^ qr[2]) * 2 ^ (LimbBits - qr[2])]) :
            qr \in {<<n \div LimbBits, n % LimbBits>>}})

\* bit i (from 0) of a
Bit(a, i) == (Limb(a, (i \div LimbBits) + 1) \div (2 ^ (i % LimbBits))) % 2

BitLen(a) ==
    IF a = << >> THEN 0
    ELSE LimbBits * (Len(a) - 1)
         + CHOOSE k \in 1..LimbBits : 2 ^ (k - 1) <= a[Len(a)] /\ a[Len(a)] < 2 ^ k

\* 10^k
RECURSIVE Pow10(_)
Pow10(k) == IF k <= 9 THEN Big(10 ^ k) ELSE NatMul(Big(10 ^ 9), Pow10(k - 9))

(***************************************************************************)
(* Doubles (IEEE 754 binary64).  A number is a record [k, s, m, e, t]:     *)
(* k = "fin" for the finite number (-1)^s * m * 2^e, where the natural m   *)
(* is below 2^Prec, e >= EMin, and m >= 2^(Prec-1) unless e = EMin (a      *)
(* subnormal); zero is m = << >>, e = 0, and keeps its sign s.  k = "inf"  *)
(* is the infinity of sign s and k = "nan" is NaN.  Any other k names the  *)
(* exception the expression raised.  t is the type of the number, "float"  *)
(* (Python) or "float64" (numpy).                                          *)
(***************************************************************************)
Prec == 53

EMin == -1074

EMax == 1024

NaN == [k |-> "nan", s |-> 0, m |-> << >>, e |-> 0, t |-> "float"]

Inf(s) == [k |-> "inf", s |-> s, m |-> << >>, e |-> 0, t |-> "float"]

Finite(s, m, e) == [k |-> "fin", s |-> s, m |-> m, e |-> IF m = << >> THEN 0 ELSE e, t |-> "float"]

Zero == Finite(0, << >>, 0)

\* q * 2^e, q <= 2^53, as a double (overflow gives an infinity)
Carry(s, q, e) ==
    IF BitLen(q) + e > EMax THEN Inf(s)
    ELSE IF BitLen(q) > Prec THEN Finite(s, NatShr(q, 1), e + 1)
    ELSE Finite(s, q, e)

\* Whether M * 2^(-sh) rounds up: the bit below the last kept is set, and
\* so is a lower one (or sticky), or the last kept (a tie, to even).
RoundUp(M, sticky, sh) ==
    /\ Bit(M, sh - 1) = 1
    /\ \/ sticky
       \/ Bit(M, sh) = 1
       \/ \E i \in 1..Len(M) : i <= (sh - 1) \div LimbBits /\ M[i] # 0
       \/ Limb(M, ((sh - 1) \div LimbBits) + 1) % (2 ^ ((sh - 1) % LimbBits)) # 0

RoundAt(s, M, e, sticky, sh) ==
    Carry(s, IF sh <= 0 THEN NatShl(M, -sh)
             ELSE The({IF RoundUp(M, sticky, sh) THEN NatAdd(q, <<1>>) ELSE q :
                          q \in {NatShr(M, sh)}}),
          e + sh)

\* round to nearest, ties to even: the double nearest (-1)^s * M * 2^e
\* (sticky: the exact value is a little more than M * 2^e)
Round(s, M, e, sticky) ==
    IF M = << >> THEN Finite(s, << >>, 0)
    ELSE RoundAt(s, M, e, sticky, Max(BitLen(M) - Prec, EMin - e))

(***************************************************************************)
(* Division and square root of naturals, digit by digit, as far as a       *)
(* double keeps and further, with the note of whether anything was left:   *)
(* enough to round the exact quotient or root correctly.                   *)
(***************************************************************************)
\* <<q, R>> with R < D, from <<q, R>> with q not above the quotient.
RECURSIVE Corrected(_, _, _)
Corrected(q, R, D) ==
    IF NatCmp(R, D) >= 0 THEN Corrected(q + 1, NatSub(R, D), D) ELSE <<q, R>>

DigitFrom(R, D, q) == The({Corrected(q, r, D) : r \in {NatSub(R, NatTimes(D, q))}})

\* The quotient and the remainder of R by D, for R < D * Base and D with a
\* leading limb of Base / 2 or more: from a digit not above the quotient,
\* which their leading limbs give.
QuotDigit(R, D) ==
    DigitFrom(R, D, (Limb(R, Len(D) + 1) * Base + Limb(R, Len(D))) \div (D[Len(D)] + 1))

\* n more limbs of the quotient q, the next being the quotient of R by D,
\* and whether the division left a remainder
RECURSIVE DivLimbs(_, _, _, _)
DivLimbs(R, D, q, n) ==
    IF n = 0 THEN <<Trim(q), R # << >> >>
    ELSE The({DivLimbs(ShiftLimb(qr[2]), D, <<qr[1]>> \o q, n - 1) :
                 qr \in {QuotDigit(R, D)}})

QuotLimbs == 4

\* A and B brought to the same bit length L, a multiple of LimbBits
QuotAt(s, A, ea, B, eb, L) ==
    The({Round(s, qr[1],
               (ea - (L - BitLen(A))) - (eb - (L - BitLen(B))) - QuotLimbs * LimbBits, qr[2]) :
            qr \in {DivLimbs(NatShl(A, L - BitLen(A)), NatShl(B, L - BitLen(B)),
                             << >>, QuotLimbs + 1)}})

\* the double nearest (-1)^s * (A * 2^ea) / (B * 2^eb), A and B nonzero
Quot(s, A, ea, B, eb) ==
    QuotAt(s, A, ea, B, eb,
           LimbBits * ((Max(BitLen(A), BitLen(B)) + LimbBits - 1) \div LimbBits))

\* The largest r with r * r <= n, for n < Base * Base: among the 128 from
\* the largest multiple h of 128 with h * h <= n.
IntRoot(n) ==
    LET h == CHOOSE h \in {128 * i : i \in 0..127} : h * h <= n /\ n < (h + 128) * (h + 128)
    IN  CHOOSE r \in h..(h + 127) : r * r <= n /\ n < (r + 1) * (r + 1)

\* (P + d) * d: what the digit d takes from the remainder, P being twice
\* the root found so far, times Base.
RootTerm(P, d) == The({NatTimes(Pd, d) : Pd \in {NatAdd(P, Big(d))}})

RECURSIVE Decreased(_, _, _)
Decreased(P, rem, d) ==
    IF NatCmp(RootTerm(P, d), rem) > 0 THEN Decreased(P, rem, d - 1) ELSE d

RECURSIVE Increased(_, _, _)
Increased(P, rem, d) ==
    IF d + 1 < Base /\ NatCmp(RootTerm(P, d + 1), rem) <= 0 THEN Increased(P, rem, d + 1)
    ELSE d

\* The largest digit d with (P + d) * d <= rem, from a digit near rem / P,
\* which their leading limbs give.
RootDigit(P, rem) ==
    Increased(P, rem,
        Decreased(P, rem,
            The({IF q <= Base - 1 THEN q ELSE Base - 1 :
                    q \in {(Limb(rem, Len(P) + 1) * Base * Base + Limb(rem, Len(P)) * Base
                            + Limb(rem, Len(P) - 1))
                           \div (P[Len(P)] * Base + P[Len(P) - 1] + 1)}})))

RECURSIVE RootLimbs(_, _, _, _)
RootWith(M, j, root, rem, P) ==
    The({RootLimbs(M, j - 1, <<d>> \o root, NatSub(rem, RootTerm(P, d))) :
            d \in {RootDigit(P, rem)}})

\* The root of the limbs of M from 2j+1 up is root, and left them rem: the
\* root of M, and whether it left anything.
RootLimbs(M, j, root, rem) ==
    IF j = 0 THEN <<root, rem # << >> >>
    ELSE The({RootWith(M, j, root, r, P) :
                 r \in {Trim(<<M[2 * j - 1], M[2 * j]>> \o rem)},
                 P \in {ShiftLimb(NatAdd(root, root))}})

RootFirst(M, j, t, r) == RootLimbs(M, j - 1, <<r>>, Big(t - r * r))

RootPairs == 4

\* M of 2 * RootPairs limbs, the leading one of Base / 4 or more
RootAligned(M, e) ==
    The({Round(0, rr[1], e \div 2, rr[2]) :
            rr \in {RootFirst(M, RootPairs, M[Len(M)] * Base + M[Len(M) - 1],
                              IntRoot(M[Len(M)] * Base + M[Len(M) - 1]))}})

RootAt(m, e, k) == RootAligned(NatShl(m, k), e - k)

\* the double nearest sqrt(m * 2^e), m nonzero: m is shifted to fill
\* 2 * RootPairs limbs, by one bit less where the exponent left would be odd
Root(m, e) ==
    RootAt(m, e, (2 * RootPairs * LimbBits - BitLen(m))
                 - ((e - (2 * RootPairs * LimbBits - BitLen(m))) % 2))

(***************************************************************************)
(* Literals                                                                *)
(***************************************************************************)
\* the double of the integer i
Num(i) ==
    The({Finite(IF i < 0 THEN 1 ELSE 0, NatShl(m, Prec - BitLen(m)), BitLen(m) - Prec) :
            m \in {Big(Abs(i))}})

\* the double of the decimal literal n * 10^k
Dec(n, k) ==
    IF n = 0 THEN Zero
    ELSE IF k >= 0 THEN Round(IF n < 0 THEN 1 ELSE 0, NatMul(Big(Abs(n)), Pow10(k)), 0, FALSE)
    ELSE Quot(IF n < 0 THEN 1 ELSE 0, Big(Abs(n)), 0, Pow10(-k), 0)

One == Num(1)

(***************************************************************************)
(* Exceptions.  An expression that raises has the exception as its         *)
(* outcome, and so has every expression computed from it.                  *)
(***************************************************************************)
Raise(name) == [k |-> name, s |-> 0, m |-> << >>, e |-> 0, t |-> "float"]

ZeroDivisionError == Raise("ZeroDivisionError")

ValueError == Raise("ValueError")

OverflowError == Raise("OverflowError")

\* Whether the expression raised instead of giving a value.
Raised(a) == a.k \notin {"fin", "inf", "nan"}

\* The name of the first exception raised among the outcomes s, in their
\* order of evaluation; "" when none raised.
RECURSIVE FirstRaised(_)
FirstRaised(s) ==
    IF s = <<>> THEN ""
    ELSE IF Raised(Head(s)) THEN Head(s).k
    ELSE FirstRaised(Tail(s))

Typed(a, t) == IF Raised(a) THEN a ELSE [a EXCEPT !.t = t]

\* np.float64(a)
float64(a) == Typed(a, "float64")

\* The type of the result of a binary operation: numpy's scalar wins.
ResultType(a, b) ==
    IF a.t = "float64" \/ b.t = "float64" THEN "float64" ELSE "float"

IsNaN(a) == a.k = "nan"

IsZero(a) == a.k = "fin" /\ a.m = << >>

\* -1, 0 or 1; 0 for both zeros and for NaN.
Sign(a) == IF a.k = "nan" \/ IsZero(a) THEN 0 ELSE IF a.s = 1 THEN -1 ELSE 1

Neg(a) == IF a.k \in {"fin", "inf"} THEN [a EXCEPT !.s = 1 - a.s] ELSE a

AbsN(a) == IF a.k \in {"fin", "inf"} THEN [a EXCEPT !.s = 0] ELSE a

(***************************************************************************)
(* Arithmetic: the exact result, rounded to the nearest double (ties to    *)
(* even), with the rules of IEEE for zeros, infinities and NaN.            *)
(***************************************************************************)
\* X * 2^e with sign sa plus Y * 2^e with sign sb
Combine(sa, X, sb, Y, e) ==
    The({Round(IF c > 0 THEN sa ELSE IF c < 0 THEN sb ELSE 0,
               IF sa = sb THEN NatAdd(X, Y) ELSE IF c > 0 THEN NatSub(X, Y) ELSE NatSub(Y, X),
               e, FALSE) :
            c \in {IF sa = sb THEN 1 ELSE NatCmp(X, Y)}})

\* a.e >= b.e, both nonzero; where the exponents differ by more than
\* Prec + 11, b is below half a unit in the last place of a
AddAligned(a, b) ==
    IF a.e - b.e > Prec + 11 THEN a
    ELSE Combine(a.s, NatShl(a.m, a.e - b.e), b.s, b.m, b.e)

Add(a, b) ==
    IF Raised(a) THEN a
    ELSE IF Raised(b) THEN b
    ELSE [(IF a.k = "fin" /\ b.k = "fin" /\ a.m # << >> /\ b.m # << >>
           THEN AddAligned(IF a.e >= b.e THEN a ELSE b, IF a.e >= b.e THEN b ELSE a)
           ELSE IF a.k = "nan" \/ b.k = "nan" THEN NaN
           ELSE IF a.k = "inf" THEN (IF b.k = "inf" /\ a.s # b.s THEN NaN ELSE a)
           ELSE IF b.k = "inf" THEN b
           ELSE IF a.m # << >> THEN a
           ELSE IF b.m # << >> THEN b
           ELSE Finite(IF a.s = 1 /\ b.s = 1 THEN 1 ELSE 0, << >>, 0))
             EXCEPT !.t = ResultType(a, b)]

Sub(a, b) == Add(a, Neg(b))

Mul(a, b) ==
    IF Raised(a) THEN a
    ELSE IF Raised(b) THEN b
    ELSE IF a.k = "fin" /\ b.k = "fin"
    THEN [Round((a.s + b.s) % 2, NatMul(a.m, b.m), a.e + b.e, FALSE)
             EXCEPT !.t = ResultType(a, b)]
    ELSE IF a.k = "nan" \/ b.k = "nan" \/ IsZero(a) \/ IsZero(b)
    THEN Typed(NaN, ResultType(a, b))
    ELSE Typed(Inf((a.s + b.s) % 2), ResultType(a, b))

\* a / 0: Python floats raise; with a numpy float64 operand the result is
\* NaN or an infinity, of the sign of a times the sign of the zero.
Div(a, b) ==
    IF Raised(a) THEN a
    ELSE IF Raised(b) THEN b
    ELSE IF ~IsZero(b)
    THEN [(IF a.k = "fin" /\ b.k = "fin" /\ a.m # << >>
           THEN Quot((a.s + b.s) % 2, a.m, a.e, b.m, b.e)
           ELSE IF a.k = "nan" \/ b.k = "nan" THEN NaN
           ELSE IF a.k = "inf" THEN (IF b.k = "inf" THEN NaN ELSE Inf((a.s + b.s) % 2))
           ELSE Finite((a.s + b.s) % 2, << >>, 0))
             EXCEPT !.t = ResultType(a, b)]
    ELSE IF a.t = "float" /\ b.t = "float" THEN ZeroDivisionError
    ELSE IF a.k = "nan" \/ IsZero(a) THEN float64(NaN)
    ELSE float64(Inf((a.s + b.s) % 2))

\* a * b + c of finite doubles with one rounding (the fused multiply-add
\* instruction of the processor); a sum of zeros is -0 only if both are
\* (so that a * 1 + c is the sum a + c and a * b + -0 the product a * b)
Fma(a, b, c) ==
    IF IsZero(a) \/ IsZero(b)
    THEN (IF ~IsZero(c) THEN c
          ELSE Finite(IF (a.s + b.s) % 2 = 1 /\ c.s = 1 THEN 1 ELSE 0, << >>, 0))
    ELSE The({Combine((a.s + b.s) % 2, NatShl(NatMul(a.m, b.m), a.e + b.e - e),
                      c.s, NatShl(c.m, c.e - e), e) :
                 e \in {IF a.e + b.e <= c.e THEN a.e + b.e ELSE c.e}})

(***************************************************************************)
(* pow(x, 2.0) of the C library the interpreter is linked with (glibc      *)
(* 2.36, sysdeps/ieee754/dbl-64/e_pow.c, in the build for processors with  *)
(* fused multiply-add): exp(2 * log(x)), the logarithm carried in two      *)
(* doubles.  The tables are those of the library, each double written as   *)
(* three integers hi, lo, e for (hi * 2^28 + lo) * 2^e, and each entry of   *)
(* a table as its doubles in a row: invc, logc, logctail in the table of    *)
(* log, and tail, scale in the table of exp.                                *)
(***************************************************************************)
pow_log_data ==
    [c |-> [ln2hi |-> <<23258159, 251279360, -53>>, ln2lo |-> <<32454009, 63399728, -97>>,
            A0 |-> <<-16777216, 0, -53>>,
            A1 |-> <<-22369621, -89478496, -53>>,
            A2 |-> <<16777216, 6, -53>>,
            A3 |-> <<26843545, 156849486, -53>>,
            A4 |-> <<-22369621, -86615162, -53>>,
            A5 |-> <<-19174841, -189285865, -52>>,
            A6 |-> <<16777912, 187056067, -52>>,
            m1 |-> <<0, -1, 0>>],
     tab |-> <<
       <<23724032, 0, -52,   -23250991, -45729792, -54,   28000834, 137844352, -100>>,
       <<23592960, 0, -52,   -22879195, -257427456, -54,   -30036109, -148961056, -98>>,
       <<23461888, 0, -52,   -22505329, -121985024, -54,   -20326989, -95834221, -97>>,
       <<23330816, 0, -52,   -22129368, -120453120, -54,   -23613001, -246441941, -101>>,
       <<23199744, 0, -52,   -21751289, -91715584, -54,   -21083801, -53034720, -99>>,
       <<23068672, 0, -52,   -21371068, -35414016, -54,   20808436, 139232460, -98>>,
       <<22937600, 0, -52,   -20988680, -109488128, -54,   29634366, 226626362, -102>>,
       <<22806528, 0, -52,   -20604101, -90785792, -54,   17505384, 106009696, -97>>,
       <<22675456, 0, -52,   -20217305, -177766400, -54,   22385885, 80052370, -97>>,
       <<22544384, 0, -52,   -19828267, -182525952, -54,   23572969, 162999256, -97>>,
       <<22413312, 0, -52,   -19436961, -64915456, -54,   22847819, 114274367, -98>>,
       <<22413312, 0, -52,   -19436961, -64915456, -54,   22847819, 114274367, -98>>,
       <<22282240, 0, -52,   -19043359, -198146048, -54,   -23437890, -139713142, -98>>,
       <<22151168, 0, -52,   -18647436, -23697408, -54,   -33225670, -149378052, -98>>,
       <<22020096, 0, -52,   -18249162, -195799040, -54,   32636003, 58894576, -98>>,
       <<21889024, 0, -52,   -17848511, -162416640, -54,   -23759951, -218454630, -97>>,
       <<21757952, 0, -52,   -17445454, -41127936, -54,   -29802215, -250872590, -99>>,
       <<21626880, 0, -52,   -17039961, -78958592, -54,   -17001353, -250883455, -100>>,
       <<21626880, 0, -52,   -17039961, -78958592, -54,   -17001353, -250883455, -100>>,
       <<21495808, 0, -52,   -33264006, -224280576, -55,   30765738, 194591879, -99>>,
       <<21364736, 0, -52,   -32443100, -198991872, -55,   28470137, 210153252, -97>>,
       <<21233664, 0, -52,   -31617142, -237694976, -55,   -24311029, -71302928, -98>>,
       <<21102592, 0, -52,   -30786070, -189775872, -55,   18589979, 197814299, -97>>,
       <<20971520, 0, -52,   -29949820, -127574016, -55,   24614134, 144671796, -97>>,
       <<20971520, 0, -52,   -29949820, -127574016, -55,   24614134, 144671796, -97>>,
       <<20840448, 0, -52,   -29108327, -70094848, -55,   26536707, 25933711, -98>>,
       <<20709376, 0, -52,   -28261524, -243318784, -55,   27584051, 265130086, -104>>,
       <<20578304, 0, -52,   -27409345, -266514432, -55,   -22595149, -205963754, -97>>,
       <<20578304, 0, -52,   -27409345, -266514432, -55,   -22595149, -205963754, -97>>,
       <<20447232, 0, -52,   -26551721, -217337856, -55,   -28122512, -79811811, -97>>,
       <<20316160, 0, -52,   -25688582, -86036480, -55,   29088759, 266074633, -97>>,
       <<20185088, 0, -52,   -24819856, -34660352, -55,   29210887, 39012952, -97>>,
       <<20185088, 0, -52,   -24819856, -34660352, -55,   29210887, 39012952, -97>>,
       <<20054016, 0, -52,   -23945470, -119132160, -55,   -17712810, -62055014, -98>>,
       <<19922944, 0, -52,   -23065351, -10981376, -55,   -32105529, -252727353, -98>>,
       <<19922944, 0, -52,   -23065351, -10981376, -55,   -32105529, -252727353, -98>>,
       <<19791872, 0, -52,   -22179422, -60928000, -55,   -17688761, -482191, -97>>,
       <<19660800, 0, -52,   -21287606, -214663168, -55,   24169494, 20281404, -98>>,
       <<19660800, 0, -52,   -21287606, -214663168, -55,   24169494, 20281404, -98>>,
       <<19529728, 0, -52,   -20389826, -2002944, -55,   18319460, 220681274, -100>>,
       <<19398656, 0, -52,   -19485999, -136310784, -55,   -21549825, -124896264, -97>>,
       <<19267584, 0, -52,   -18576045, -86990848, -55,   -31984193, -135373718, -97>>,
       <<19267584, 0, -52,   -18576045, -86990848, -55,   -31984193, -135373718, -97>>,
       <<19136512, 0, -52,   -17659879, -214994944, -55,   27695464, 149445620, -99>>,
       <<19136512, 0, -52,   -17659879, -214994944, -55,   27695464, 149445620, -99>>,
       <<19005440, 0, -52,   -33474835, -31186944, -56,   -22500677, -212022258, -97>>,
       <<18874368, 0, -52,   -31617142, -237699072, -56,   27476674, 183500860, -97>>,
       <<18874368, 0, -52,   -31617142, -237699072, -56,   27476674, 183500860, -97>>,
       <<18743296, 0, -52,   -29746504, -257671168, -56,   -30459253, -140492294, -98>>,
       <<18612224, 0, -52,   -27862739, -172679168, -56,   22254430, 140225224, -97>>,
       <<18612224, 0, -52,   -27862739, -172679168, -56,   22254430, 140225224, -97>>,
       <<18481152, 0, -52,   -25965661, -103915520, -56,   20431508, 221206120, -98>>,
       <<18481152, 0, -52,   -25965661, -103915520, -56,   20431508, 221206120, -98>>,
       <<18350080, 0, -52,   -24055080, -182804480, -56,   -23688060, -154366938, -97>>,
       <<18219008, 0, -52,   -22130803, -252059648, -56,   32515510, 29777495, -98>>,
       <<18219008, 0, -52,   -22130803, -252059648, -56,   32515510, 29777495, -98>>,
       <<18087936, 0, -52,   -20192633, -102490112, -56,   29748652, 217650143, -97>>,
       <<18087936, 0, -52,   -20192633, -102490112, -56,   29748652, 217650143, -97>>,
       <<17956864, 0, -52,   -18240366, -245596160, -56,   21480935, 110076681, -98>>,
       <<17825792, 0, -52,   -32547596, -1146880, -57,   30775784, 53907089, -97>>,
       <<17825792, 0, -52,   -32547596, -1146880, -57,   30775784, 53907089, -97>>,
       <<17694720, 0, -52,   -28585431, -18448384, -57,   29894574, 97939532, -98>>,
       <<17694720, 0, -52,   -28585431, -18448384, -57,   29894574, 97939532, -98>>,
       <<17563648, 0, -52,   -24593807, -103989248, -57,   -30393443, -83010030, -97>>,
       <<17563648, 0, -52,   -24593807, -103989248, -57,   -30393443, -83010030, -97>>,
       <<17432576, 0, -52,   -20572283, -167690240, -57,   22031231, 86441642, -100>>,
       <<17432576, 0, -52,   -20572283, -167690240, -57,   22031231, 86441642, -100>>,
       <<17301504, 0, -52,   -33040816, -242745344, -58,   -26739303, -209586660, -97>>,
       <<17301504, 0, -52,   -33040816, -242745344, -58,   -26739303, -209586660, -97>>,
       <<17170432, 0, -52,   -24875440, -131432448, -58,   -25744713, -66758201, -97>>,
       <<17039360, 0, -52,   -33294987, -16515072, -59,   -32630735, -114534044, -102>>,
       <<17039360, 0, -52,   -33294987, -16515072, -59,   -32630735, -114534044, -102>>,
       <<16908288, 0, -52,   -33424038, -185597952, -60,   -27141104, -232407268, -98>>,
       <<16908288, 0, -52,   -33424038, -185597952, -60,   -27141104, -232407268, -98>>,
       <<16777216, 0, -52,   0, 0, 0,   0, 0, 0>>,
       <<16777216, 0, -52,   0, 0, 0,   0, 0, 0>>,
       <<33292288, 0, -53,   16843095, 92864512, -59,   -17594041, -161295336, -98>>,
       <<33030144, 0, -53,   16909669, 143884288, -58,   -20825520, -115537874, -97>>,
       <<32768000, 0, -53,   25465426, 147390464, -58,   -27921315, -39455796, -97>>,
       <<32505856, 0, -53,   17044952, 166150144, -57,   17898501, 217175891, -99>>,
       <<32243712, 0, -53,   21392109, 70123520, -57,   -29452087, -96337192, -97>>,
       <<31981568, 0, -53,   25774753, 77578240, -57,   -26712413, -5908093, -98>>,
       <<31719424, 0, -53,   30193468, 232636416, -57,   -27692836, -131606535, -98>>,
       <<31588352, 0, -53,   32416540, 442368, -57,   -31527908, -264846203, -99>>,
       <<31326208, 0, -53,   18445245, 21389312, -56,   -22226389, -101555867, -97>>,
       <<31064064, 0, -53,   20701018, 131194880, -56,   30180842, 98258647, -97>>,
       <<30801920, 0, -53,   22975908, 228040704, -56,   -29790307, -207428894, -97>>,
       <<30670848, 0, -53,   24120624, 183156736, -56,   29485274, 161344818, -101>>,
       <<30408704, 0, -53,   26424805, 223952896, -56,   19994051, 180176858, -97>>,
       <<30146560, 0, -53,   28748936, 229466112, -56,   -20514818, -200763621, -98>>,
       <<30015488, 0, -53,   29918592, 29114368, -56,   23358748, 106605779, -97>>,
       <<29753344, 0, -53,   32273304, 50995200, -56,   -31196810, -266749408, -97>>,
       <<29622272, 0, -53,   33458451, 165404672, -56,   -22236516, -262212349, -97>>,
       <<29360128, 0, -53,   17922280, 36167680, -55,   18806668, 237832178, -97>>,
       <<29229056, 0, -53,   18522807, 237236224, -55,   30046436, 70818100, -97>>,
       <<28966912, 0, -53,   19731984, 210141184, -55,   20567756, 193049761, -99>>,
       <<28835840, 0, -53,   20340683, 1413120, -55,   23263874, 55276169, -103>>,
       <<28573696, 0, -53,   21566424, 53719040, -55,   22558613, 83736184, -97>>,
       <<28442624, 0, -53,   22183518, 77705216, -55,   23281294, 90799559, -97>>,
       <<28180480, 0, -53,   23426283, 244060160, -55,   27064498, 205270648, -98>>,
       <<28049408, 0, -53,   24052008, 192245760, -55,   -22091998, -94118369, -97>>,
       <<27918336, 0, -53,   24680664, 88363008, -55,   -29778183, -9519877, -98>>,
       <<27656192, 0, -53,   25946878, 188284928, -55,   -24368458, -183053521, -99>>,
       <<27525120, 0, -53,   26584493, 217513984, -55,   25109125, 144768879, -99>>,
       <<27262976, 0, -53,   27868883, 210427904, -55,   -25633845, -5644649, -97>>,
       <<27131904, 0, -53,   28515717, 123457536, -55,   -29579476, -246210986, -99>>,
       <<27000832, 0, -53,   29165683, 138141696, -55,   -30719045, -156504758, -97>>,
       <<26869760, 0, -53,   29818812, 116396032, -55,   -18794284, -93727698, -100>>,
       <<26607616, 0, -53,   31134683, 13930496, -55,   -28308143, -118861877, -97>>,
       <<26476544, 0, -53,   31797487, 266801152, -55,   18948726, 4322352, -103>>,
       <<26345472, 0, -53,   32463582, 81592320, -55,   -27398486, -96177681, -103>>,
       <<26214400, 0, -53,   33132998, 213102592, -55,   29146828, 168615728, -98>>,
       <<25952256, 0, -53,   17240966, 5068800, -54,   25808305, 116215441, -100>>,
       <<25821184, 0, -53,   17580758, 123822080, -54,   24217777, 104655593, -97>>,
       <<25690112, 0, -53,   17922280, 36169728, -54,   -29495526, -61206556, -97>>,
       <<25559040, 0, -53,   18265548, 195885056, -54,   28945631, 128259713, -97>>,
       <<25427968, 0, -53,   18610582, 56256512, -54,   30043861, 21478839, -97>>,
       <<25296896, 0, -53,   18957398, 219068416, -54,   27819499, 172407530, -99>>,
       <<25034752, 0, -53,   19656455, 215781376, -54,   27905956, 173016308, -97>>,
       <<24903680, 0, -53,   20008734, 30629888, -54,   -26093485, -52509880, -97>>,
       <<24772608, 0, -53,   20362871, 113119232, -54,   18279643, 15824840, -98>>,
       <<24641536, 0, -53,   20718887, 120795136, -54,   25408843, 101104988, -98>>,
       <<24510464, 0, -53,   21076802, 64350208, -54,   26100590, 210821277, -99>>,
       <<24379392, 0, -53,   21436636, 41011200, -54,   -32668896, -157800053, -97>>,
       <<24248320, 0, -53,   21798409, 236400640, -54,   -31590545, -185260196, -97>>,
       <<24117248, 0, -53,   22162144, 121151488, -54,   32237320, 23381849, -97>>,
       <<23986176, 0, -53,   22527861, 63492096, -54,   33218270, 240992495, -98>>,
       <<23855104, 0, -53,   22895581, 257515520, -54,   -27308704, -144991708, -99>>>>]

exp_data ==
    [c |-> [invln2N |-> <<24204406, 86737662, -45>>, shift |-> <<25165824, 0, 0>>,
            negln2hiN |-> <<-23258159, -251265024, -60>>, negln2loN |-> <<-30374315, -211696442, -99>>,
            C2 |-> <<33554431, 268434877, -54>>,
            C3 |-> <<22369621, 89478204, -55>>,
            C4 |-> <<22369628, 253176721, -57>>,
            C5 |-> <<17895702, 128241687, -59>>,
            one |-> <<0, 1, 0>>, two |-> <<0, 1, 1>>, p769 |-> <<0, 1, 769>>, p767 |-> <<0, 1, -767>>,
            p1009 |-> <<0, 1, 1009>>, p1022 |-> <<0, 1, -1022>>],
     tab |-> <<
       <<0, 0, 0,   16777216, 0, -52>>,
       <<28554481, 176734062, -106,   16868314, 167457589, -52>>,
       <<-18219321, -215538781, -108,   16959907, 242712673, -52>>,
       <<-17164193, -8873681, -106,   17051998, 141459333, -52>>,
       <<30221603, 90699283, -107,   17144589, 51742068, -52>>,
       <<-29157378, -66686714, -107,   17237682, 165541598, -52>>,
       <<17790182, 31901793, -109,   17331281, 141925320, -52>>,
       <<17448517, 187945881, -106,   17425388, 180810627, -52>>,
       <<24750693, 226720621, -106,   17520006, 217680143, -52>>,
       <<32199081, 50196476, -107,   17615138, 192038903, -52>>,
       <<32236503, 3120337, -112,   17710787, 47436194, -52>>,
       <<-27276104, -160460299, -109,   17806954, 268358427, -52>>,
       <<-22373666, -170900750, -106,   17903645, 1203025, -52>>,
       <<-17305336, -206498389, -110,   18000860, 7090636, -52>>,
       <<-18649659, -165016598, -106,   18098602, 245968352, -52>>,
       <<17645118, 157046191, -107,   18196876, 145067601, -52>>,
       <<-16888158, -178623304, -107,   18295683, 209539451, -52>>,
       <<-32636677, -98447933, -107,   18395027, 143429098, -52>>,
       <<28874947, 252924863, -107,   18494910, 191875957, -52>>,
       <<-23960007, -101837606, -106,   18595336, 67394772, -52>>,
       <<28233587, 238694240, -106,   18696307, 23640490, -52>>,
       <<-33454124, -193345693, -107,   18797826, 50125085, -52>>,
       <<27718676, 78037901, -107,   18899896, 140676310, -52>>,
       <<17277019, 14943357, -107,   19002521, 25025686, -52>>,
       <<23654366, 61384852, -106,   19105702, 242573880, -52>>,
       <<24502671, 41175165, -107,   19209444, 263366207, -52>>,
       <<17068729, 136308722, -107,   19313750, 98729181, -52>>,
       <<-23824307, -259065950, -106,   19418622, 32859009, -52>>,
       <<19889686, 218737457, -107,   19524063, 85974753, -52>>,
       <<-30546353, -175095802, -112,   19630077, 14342544, -52>>,
       <<28538919, 34343604, -107,   19736666, 115606283, -52>>,
       <<31541544, 164547471, -109,   19843834, 155070294, -52>>,
       <<20240212, 229682102, -107,   19951584, 171030293, -52>>,
       <<23339038, 44856396, -107,   20059919, 206362673, -52>>,
       <<33411989, 231995466, -107,   20168843, 40113919, -52>>,
       <<-23738371, -193878788, -107,   20278357, 261267441, -52>>,
       <<-19181276, -206262376, -106,   20388467, 121285067, -52>>,
       <<-26247041, -189869454, -106,   20499174, 218486886, -52>>,
       <<-18685571, -244594386, -108,   20610483, 82157559, -52>>,
       <<-26317211, -63838997, -106,   20722396, 51620069, -52>>,
       <<22672522, 120212589, -107,   20834916, 202519586, -52>>,
       <<-19998215, -170420618, -106,   20948048, 78413852, -52>>,
       <<-25852148, -135760219, -110,   21061794, 32976426, -52>>,
       <<-29542838, -122264091, -108,   21176157, 156280983, -52>>,
       <<20332246, 12758033, -111,   21291142, 6392109, -52>>,
       <<23486611, 184968431, -106,   21406750, 220004439, -52>>,
       <<32296477, 178324345, -109,   21522987, 96550096, -52>>,
       <<20969699, 252645936, -106,   21639855, 14144478, -52>>,
       <<23661803, 192589744, -108,   21757357, 87435815, -52>>,
       <<20044766, 190111863, -106,   21875497, 167632141, -52>>,
       <<-33112896, -7447438, -107,   21994279, 110963879, -52>>,
       <<-25029837, -211002185, -107,   22113706, 47146562, -52>>,
       <<-26078315, -219101279, -108,   22233781, 110972802, -52>>,
       <<-23143534, -209411318, -107,   22354508, 173904399, -52>>,
       <<20140113, 150853518, -106,   22475891, 112535514, -52>>,
       <<28937074, 260741893, -108,   22597933, 77055997, -52>>,
       <<17186334, 35410953, -106,   22720637, 222843945, -52>>,
       <<21788757, 1689322, -112,   22844008, 173622967, -52>>,
       <<21180002, 191152181, -106,   22968049, 95232328, -52>>,
       <<-30295206, -26834591, -107,   23092763, 158784521, -52>>,
       <<-29572179, -200232360, -107,   23218155, 3822981, -52>>,
       <<-21313416, -153872814, -107,   23344227, 80528160, -52>>,
       <<-20770263, -139876440, -106,   23470984, 39133733, -52>>,
       <<24185512, 8264036, -110,   23598429, 72132979, -52>>,
       <<-20659963, -257827368, -106,   23726566, 109001677, -52>>,
       <<-27339480, -120895874, -109,   23855399, 84662975, -52>>,
       <<-20348667, -141404654, -109,   23984931, 207952431, -52>>,
       <<-17679317, -81823825, -107,   24115167, 156341380, -52>>,
       <<-25294407, -240795343, -108,   24246110, 149708660, -52>>,
       <<-24044716, -9141680, -107,   24377764, 145064308, -52>>,
       <<-23171873, -240510602, -107,   24510133, 105015241, -52>>,
       <<17419445, 235525331, -106,   24643220, 266231103, -52>>,
       <<-28519883, -156083485, -108,   24777031, 65732999, -52>>,
       <<21942229, 73908331, -106,   24911568, 19972402, -52>>,
       <<22986266, 198601813, -109,   25046835, 114249314, -52>>,
       <<-25828434, -263442242, -107,   25182837, 71178770, -52>>,
       <<-20355951, -20657972, -106,   25319577, 156028435, -52>>,
       <<-17164355, -169475870, -107,   25457060, 103008173, -52>>,
       <<-21841165, -141711214, -106,   25595289, 189043437, -52>>,
       <<17487477, 185502208, -106,   25734269, 160065177, -52>>,
       <<31159036, 32565940, -107,   25874004, 36348123, -52>>,
       <<-22767113, -214296575, -109,   26014497, 112542860, -52>>,
       <<29321269, 166944580, -108,   26155753, 152401718, -52>>,
       <<-19960314, -119422339, -106,   26297776, 194117574, -52>>,
       <<-31103880, -191634985, -110,   26440571, 13485541, -52>>,
       <<-29507479, -210811225, -109,   26584140, 197677583, -52>>,
       <<-19149874, -49609130, -106,   26728489, 266227280, -52>>,
       <<-22849229, -124161611, -107,   26873623, 13240250, -52>>,
       <<18546626, 194104871, -108,   27019544, 44298384, -52>>,
       <<31269726, 17462203, -109,   27166257, 165880611, -52>>,
       <<-24924226, -39985763, -107,   27313767, 190702949, -52>>,
       <<28428398, 65155541, -107,   27462078, 206187827, -52>>,
       <<-18595101, -62700309, -106,   27611195, 37627229, -52>>,
       <<17613593, 216936914, -106,   27761121, 53523288, -52>>,
       <<21403718, 242440883, -107,   27911861, 91880895, -52>>,
       <<-19791065, -126786996, -107,   28063419, 265548666, -52>>,
       <<29468537, 46871431, -107,   28215801, 156947373, -52>>,
       <<-17283316, -181524986, -106,   28369010, 160282214, -52>>,
       <<-22822293, -115125946, -110,   28523051, 139400699, -52>>,
       <<-17449187, -229045824, -106,   28677928, 233134394, -52>>,
       <<-26046275, -145593140, -109,   28833647, 50028103, -52>>,
       <<-18804262, -190351925, -106,   28990211, 10552906, -52>>,
       <<22019440, 174054861, -108,   29147625, 4964818, -52>>,
       <<-18603967, -177379500, -106,   29305893, 198647305, -52>>,
       <<20376291, 11472051, -108,   29465021, 226841244, -52>>,
       <<32387877, 211811732, -107,   29625013, 268423290, -52>>,
       <<21891325, 17389996, -107,   29785874, 240636235, -52>>,
       <<20765427, 139336295, -109,   29947609, 67561397, -52>>,
       <<24556230, 210901352, -109,   30110221, 217026665, -52>>,
       <<-17342856, -63747538, -107,   30273717, 90031098, -52>>,
       <<-33215955, -268434031, -107,   30438100, 168266108, -52>>,
       <<-16833251, -141928777, -106,   30603376, 135105010, -52>>,
       <<21641306, 104662951, -108,   30769549, 217818247, -52>>,
       <<-19470818, -4203023, -107,   30936625, 113869720, -52>>,
       <<31827213, 96572076, -107,   31104608, 64696965, -52>>,
       <<21210522, 201419595, -107,   31273503, 50443360, -52>>,
       <<-19747344, -129252895, -107,   31443315, 58432351, -52>>,
       <<-26389395, -189205961, -107,   31614049, 83206441, -52>>,
       <<21717062, 3836115, -108,   31785710, 126566390, -52>>,
       <<20733637, 27095665, -107,   31958303, 197610627, -52>>,
       <<-33517864, -265523696, -107,   32131834, 44339418, -52>>,
       <<-31123854, -35878013, -107,   32306306, 227436529, -52>>,
       <<32259012, 27926536, -107,   32481726, 241261095, -52>>,
       <<21150028, 61467442, -107,   32658099, 124500631, -52>>,
       <<27675283, 30508526, -107,   32835429, 191776064, -52>>,
       <<-31685550, -71033837, -107,   33013722, 228376084, -52>>,
       <<24679348, 227659165, -108,   33192984, 27168984, -52>>,
       <<19946516, 23121033, -110,   33373218, 193950193, -52>>>>]

\* The instructions of pow(x, 2.0) in program order, from log_inline through
\* exp_inline to specialcase.  <<"if", c>> opens the block that is executed
\* when c holds; <<v, op, x, y, z>> assigns to v the sum x + y ("add"), the
\* difference x - y ("sub"), the product x * y ("mul"), or x * y + z ("fma")
\* or x * y - z ("fms") with one rounding; <<v, "tab", b>> assigns the
\* double v of the entry ki % 128 of the table of exp, ki being kd as an
\* integer, scaled for "scale" by 2^(ki \div 128 + b).
pow_code ==
    << <<"r", "fma", "z", "invc", "m1">>,                \* log_inline
       <<"t1", "fma", "kd", "ln2hi", "logc">>,
       <<"t2", "add", "t1", "r">>,
       <<"lo1", "fma", "kd", "ln2lo", "logctail">>,
       <<"d", "sub", "t1", "t2">>,
       <<"lo2", "add", "d", "r">>,
       <<"ar", "mul", "A0", "r">>,
       <<"ar2", "mul", "r", "ar">>,
       <<"ar3", "mul", "r", "ar2">>,
       <<"hi", "add", "t2", "ar2">>,
       <<"lo3", "fms", "ar", "r", "ar2">>,
       <<"d", "sub", "t2", "hi">>,
       <<"lo4", "add", "d", "ar2">>,
       <<"p", "fma", "r", "A6", "A5">>,
       <<"q", "fma", "r", "A4", "A3">>,
       <<"q", "fma", "p", "ar2", "q">>,
       <<"p", "fma", "r", "A2", "A1">>,
       <<"p", "fma", "ar2", "q", "p">>,
       <<"lo", "add", "lo1", "lo2">>,
       <<"lo", "add", "lo", "lo3">>,
       <<"lo", "add", "lo", "lo4">>,
       <<"lo", "fma", "ar3", "p", "lo">>,
       <<"y", "add", "hi", "lo">>,
       <<"d", "sub", "hi", "y">>,
       <<"tail", "add", "d", "lo">>,
       <<"ehi", "mul", "two", "y">>,                     \* pow
       <<"d", "fms", "y", "two", "ehi">>,
       <<"elo", "fma", "two", "tail", "d">>,
       <<"if", "tiny">>,                                 \* exp_inline
       <<"y", "add", "one", "ehi">>,
       <<"if", "overflow">>,
       <<"y", "mul", "p769", "p769">>,
       <<"if", "underflow">>,
       <<"y", "mul", "p767", "p767">>,
       <<"if", "exp">>,
       <<"kd", "fma", "ehi", "invln2N", "shift">>,
       <<"kd", "sub", "kd", "shift">>,
       <<"r", "fma", "kd", "negln2hiN", "ehi">>,
       <<"r", "fma", "kd", "negln2loN", "r">>,
       <<"r", "add", "elo", "r">>,
       <<"c3", "fma", "r", "C3", "C2">>,
       <<"tail", "tab", 0>>,
       <<"tmp", "add", "r", "tail">>,
       <<"r2", "mul", "r", "r">>,
       <<"c5", "fma", "r", "C5", "C4">>,
       <<"tmp", "fma", "c3", "r2", "tmp">>,
       <<"r4", "mul", "r2", "r2">>,
       <<"tmp", "fma", "c5", "r4", "tmp">>,
       <<"if", "normal">>,
       <<"scale", "tab", 0>>,
       <<"y", "fma", "tmp", "scale", "scale">>,
       <<"if", "large">>,                                \* specialcase
       <<"scale", "tab", -1009>>,
       <<"y", "fma", "scale", "tmp", "scale">>,
       <<"y", "mul", "p1009", "y">>,
       <<"if", "small">>,
       <<"scale", "tab", 1022>>,
       <<"st", "mul", "scale", "tmp">>,
       <<"y", "add", "scale", "st">>,
       <<"if", "subnormal">>,
       <<"d", "sub", "scale", "y">>,
       <<"lo", "add", "d", "st">>,
       <<"hi", "add", "one", "y">>,
       <<"d", "sub", "one", "hi">>,
       <<"d", "add", "d", "y">>,
       <<"lo", "add", "d", "lo">>,
       <<"y", "add", "hi", "lo">>,
       <<"y", "sub", "y", "one">>,
       <<"if", "small">>,
       <<"y", "mul", "p1022", "y">> >>

\* The registers after the instructions lo..hi of pow_code, from the
\* registers regs.  The conditions of the blocks: |ehi| < 2^-54 ("tiny"),
\* |ehi| >= 1024 ("overflow", "underflow"), otherwise ("exp") |ehi| < 512
\* ("normal") or not, with ki >= 0 ("large") or ki < 0 ("small"), there
\* with |y| < 1 ("subnormal").
RECURSIVE Run(_, _, _)
Run(lo, hi, regs) ==
    IF lo < hi
    THEN The({Run(((lo + hi) \div 2) + 1, hi, r) : r \in {Run(lo, (lo + hi) \div 2, regs)}})
    ELSE The({The({
         IF c[1] = "if"
         THEN [regs EXCEPT !["if"] =
                  IF c[2] = "tiny" THEN x < -53
                  ELSE IF c[2] = "overflow" THEN x >= 11 /\ regs["ehi"].s = 0
                  ELSE IF c[2] = "underflow" THEN x >= 11 /\ regs["ehi"].s = 1
                  ELSE IF c[2] = "exp" THEN x >= -53 /\ x < 11
                  ELSE IF c[2] = "normal" THEN x >= -53 /\ x < 10
                  ELSE IF c[2] = "large" THEN x = 10 /\ regs["kd"].s = 0
                  ELSE IF c[2] = "small" THEN x = 10 /\ regs["kd"].s = 1
                  ELSE x = 10 /\ regs["kd"].s = 1
                       /\ (IsZero(regs["y"]) \/ BitLen(regs["y"].m) + regs["y"].e <= 0)]
         ELSE IF ~regs["if"] THEN regs
         ELSE IF c[2] = "tab"
         THEN The({The({(c[1] :> Finite(IF T[1] < 0 \/ T[2] < 0 THEN 1 ELSE 0,
                                        Trim(<<Abs(T[2]) % Base, Abs(T[2]) \div Base,
                                               Abs(T[1]) % Base, Abs(T[1]) \div Base>>),
                                        T[3] + (IF c[1] = "scale"
                                                THEN ((n - (n % 128)) \div 128) + c[3] ELSE 0)))
                        @@ regs :
                           T \in {IF c[1] = "scale" THEN SubSeq(row, 4, 6) ELSE SubSeq(row, 1, 3) :
                                     row \in {regs["exp"][(n % 128) + 1]}}}) :
                      n \in {IF IsZero(regs["kd"]) THEN 0
                             ELSE (1 - 2 * regs["kd"].s)
                                  * The({Limb(q, 1) + Base * Limb(q, 2) :
                                            q \in {NatShr(regs["kd"].m, -regs["kd"].e)}})}})
         ELSE (c[1] :>
                 Fma(IF c[2] = "sub" THEN Neg(regs[c[4]]) ELSE regs[c[3]],
                     IF c[2] \in {"add", "sub"} THEN regs["one"] ELSE regs[c[4]],
                     IF c[2] = "add" THEN regs[c[4]]
                     ELSE IF c[2] = "sub" THEN regs[c[3]]
                     ELSE IF c[2] = "mul" THEN Finite(1, << >>, 0)
                     ELSE IF c[2] = "fms" THEN Neg(regs[c[5]]) ELSE regs[c[5]])) @@ regs :
           x \in {IF IsZero(regs["ehi"]) THEN -1075
                  ELSE BitLen(regs["ehi"].m) + regs["ehi"].e}}) :
           c \in {pow_code[lo]}})

\* pow(x, 2.0) for a normal x > 0: x = z * 2^k with z in [0x1.69555p-1,
\* 0x1.69555p0), and i the interval of z out of the 128 of the table of log
\* (ki = <<k, i>>, from the leading 21 bits h of x)
pow(x) ==
    The({The({The({Run(1, Len(pow_code), regs)["y"] :
                     regs \in {("if" :> TRUE) @@ ("exp" :> D[2].tab)
                               @@ [z |-> Finite(0, x.m, x.e - ki[1]),
                                   kd |-> Finite(IF ki[1] < 0 THEN 1 ELSE 0, Big(Abs(ki[1])), 0),
                                   ehi |-> Zero, y |-> Zero]
                               @@ [n \in DOMAIN T |->
                                      Finite(IF T[n][1] < 0 \/ T[n][2] < 0 THEN 1 ELSE 0,
                                             Trim(<<Abs(T[n][2]) % Base, Abs(T[n][2]) \div Base,
                                                    Abs(T[n][1]) % Base, Abs(T[n][1]) \div Base>>),
                                             T[n][3])] :
                                  T \in {[invc |-> SubSeq(row, 1, 3), logc |-> SubSeq(row, 4, 6),
                                          logctail |-> SubSeq(row, 7, 9)] @@ D[1].c @@ D[2].c :
                                            row \in {D[1].tab[ki[2] + 1]}}}}) :
                 D \in {<<pow_log_data, exp_data>>}}) :
            ki \in {IF h >= 1480021 THEN <<x.e + 53, (h - 1480021) \div 8192>>
                                     ELSE <<x.e + 52, (h - 431445) \div 8192>> :
                       h \in {The({Limb(q, 1) + Base * Limb(q, 2) :
                                     q \in {NatShr(x.m, 32)}})}}})

\* a ** 2: Python and numpy compute it with the pow of the C library, whose
\* error is below 0.509 + |2 ln a| * 1.3 * 2^-15 units in the last place:
\* below 0.54 for every a, and below 0.5126 for 2^-65 <= |a| < 2^64.  Where
\* the exact square is farther than that from the middle of two doubles
\* (the 8 bits below the last kept are not in 117..138, or 124..131), pow
\* gives the nearest double, and nearer to a middle it gives what its
\* arithmetic gives.  A Python float raises OverflowError where numpy gives
\* inf.
Sq(a) ==
    The({IF v.k = "inf" THEN Typed(Inf(0), v.t)
         ELSE IF v.k # "fin" THEN v
         ELSE IF IsZero(v) THEN Typed(Zero, v.t)
         ELSE The({IF sq.k = "inf" /\ v.t = "float" THEN OverflowError ELSE Typed(sq, v.t) :
                      sq \in {IF Limb(NatShr(M, Max(BitLen(M) - Prec, EMin - 2 * v.e) - 8), 1)
                                    % 256 \in (IF Abs(BitLen(v.m) + v.e) <= 64
                                               THEN 124..131 ELSE 117..138)
                              THEN pow(v) ELSE Round(0, M, 2 * v.e, FALSE) :
                                 M \in {NatMul(v.m, v.m)}}}) :
           v \in {a}})

(***************************************************************************)
(* Comparisons.  Every ordered comparison with NaN is false, and so is ==. *)
(***************************************************************************)
\* a, b not nan: by the signs, then by the magnitudes
Cmp(a, b) ==
    IF Sign(a) # Sign(b) THEN (IF Sign(a) < Sign(b) THEN -1 ELSE 1)
    ELSE IF a.k = "inf" THEN (IF b.k = "inf" THEN 0 ELSE Sign(a))
    ELSE IF b.k = "inf" THEN -Sign(a)
    ELSE IF a.e # b.e THEN (IF a.e < b.e THEN -Sign(a) ELSE Sign(a))
    ELSE Sign(a) * NatCmp(a.m, b.m)

IsNumber(a, b) == a.k \in {"fin", "inf"} /\ b.k \in {"fin", "inf"}

Lt(a, b) == IsNumber(a, b) /\ Cmp(a, b) < 0

Le(a, b) == IsNumber(a, b) /\ Cmp(a, b) <= 0

Gt(a, b) == IsNumber(a, b) /\ Cmp(a, b) > 0

Ge(a, b) == IsNumber(a, b) /\ Cmp(a, b) >= 0

Eq(a, b) == IsNumber(a, b) /\ Cmp(a, b) = 0

\* math.sqrt: ValueError on a negative argument; the result is a Python
\* float whatever the type of the argument.
Sqrt(a) ==
    IF a.k = "fin" /\ a.s = 0 /\ a.m # << >> THEN Root(a.m, a.e)
    ELSE IF Raised(a) THEN a
    ELSE IF a.k = "nan" THEN NaN
    ELSE IF IsZero(a) THEN Typed(a, "float")
    ELSE IF a.s = 1 THEN ValueError
    ELSE Inf(0)

(***************************************************************************)
(* Containers (fluxpart.containers)                                        *)
(***************************************************************************)
\* The co2soln_id of a root that selected no branch.
None == -1

WQCData(wq, wc, var_q, var_c, corr_qc) ==
    [wq |-> wq, wc |-> wc, var_q |-> var_q, var_c |-> var_c, corr_qc |-> corr_qc]

\* MassFluxes(): every field defaults to NaN.
MassFluxesDefault ==
    [Fq |-> NaN, Fqt |-> NaN, Fqe |-> NaN, Fc |-> NaN, Fcp |-> NaN, Fcr |-> NaN]

(***************************************************************************)
(* flux_ratio: the nonstomatal:stomatal ratio of the CO2 or H2O flux.      *)
(* farg is the co2soln_id when ftype = "co2" and wue when ftype = "h2o".   *)
(* Every value used more than once is an operator parameter, so that it is *)
(* computed once; so is c2, the corr_cp_cr ** 2 that disc has twice.       *)
(***************************************************************************)
\* The test of disc and the return statement of flux_ratio.  num is
\* computed before disc: a num that raised (farg ** 2) is the exception of
\* the call, and so is, after it, a disc that raised.
ratio_of_disc(num, disc, sign, corr_cp_cr) ==
    IF Raised(num) THEN num
    ELSE IF Raised(disc) THEN disc
    ELSE IF Lt(disc, Zero) THEN NaN
    ELSE Mul(Sq(corr_cp_cr), Sub(Mul(sign, Sqrt(disc)), One))

\* The result is a number, or the exception raised: ValueError for an ftype
\* that is neither CO2 nor H2O, OverflowError from a ** 2 of a Python float,
\* ZeroDivisionError from the divisions of disc.
flux_ratio(var_cp, corr_cp_cr, wqc_data, ftype, farg) ==
    LET co2 == ftype = "co2" \/ ftype = "CO2"
        h2o == ftype = "h2o" \/ ftype = "H2O"
        sign == IF co2 THEN (IF farg = 1 THEN Num(1) ELSE Num(-1)) ELSE Num(1)
        num == IF co2 THEN wqc_data.var_c ELSE Mul(Sq(farg), wqc_data.var_q)
        disc == The({Add(Sub(One, Div(One, c2)), Div(Div(num, var_cp), c2)) :
                        c2 \in {Sq(corr_cp_cr)}})
    IN  IF ~co2 /\ ~h2o THEN ValueError
        ELSE ratio_of_disc(num, disc, sign, corr_cp_cr)

\* The residuals of Eqs. 7a and 7b for given flux ratios.  The flux ratios
\* are computed before the residuals, wcr_ov_wcp first: an exception raised
\* in a flux ratio is the exception of the call, carried by both residuals.
residuals(wcr_ov_wcp, wqe_ov_wqt, corr_cp_cr, var_cp, wqc_data, wue) ==
    IF Raised(wcr_ov_wcp) THEN <<wcr_ov_wcp, wcr_ov_wcp>>
    ELSE IF Raised(wqe_ov_wqt) THEN <<wqe_ov_wqt, wqe_ov_wqt>>
    ELSE
    LET lhs1 == Mul(Div(Mul(wue, wqc_data.wq), wqc_data.wc), Add(wcr_ov_wcp, One))
        rhs1 == Add(wqe_ov_wqt, One)
        lhs2 == Mul(Mul(wue, wqc_data.corr_qc),
                    Div(Sqrt(Mul(wqc_data.var_c, wqc_data.var_q)), var_cp))
        rhs2 == Add(Add(Add(One, wqe_ov_wqt), wcr_ov_wcp),
                    Div(Mul(wqe_ov_wqt, wcr_ov_wcp), Sq(corr_cp_cr)))
    IN  <<Sub(lhs1, rhs1), Sub(lhs2, rhs2)>>

\* _residual_func at x = (corr_cp_cr, var_cp).
residual_func(corr_cp_cr, var_cp, wqc_data, wue, co2soln_id) ==
    The({residuals(wcr_ov_wcp, wqe_ov_wqt, corr_cp_cr, var_cp, wqc_data, wue) :
            wcr_ov_wcp \in {flux_ratio(var_cp, corr_cp_cr, wqc_data, "co2", co2soln_id)},
            wqe_ov_wqt \in {flux_ratio(var_cp, corr_cp_cr, wqc_data, "h2o", wue)}})

\* The result of _isvalid_root, given which of its two tests failed.
root_check(bad_var, bad_corr) ==
    [isvalid |-> ~bad_var /\ ~bad_corr,
     mssg |-> (IF bad_var THEN "var_cp <= 0; " ELSE "")
              \o (IF bad_corr THEN "corr_cp_cr <-1 OR >0; " ELSE "")]

\* _isvalid_root: the bounds check of the trial root.
isvalid_root(corr_cp_cr, var_cp) ==
    root_check(Le(var_cp, Zero),
               ~(Lt(Num(-1), corr_cp_cr) /\ Lt(corr_cp_cr, Zero)))

\* The residual tolerance of findroot.
tol == Dec(1, -12)

WithinTol(r) == Lt(AbsN(r[1]), tol) /\ Lt(AbsN(r[2]), tol)

(***************************************************************************)
(* findroot, in its stages: the scaling of the dimensional parameters, the *)
(* closed-form trial root, the bounds check, the selection of the CO2      *)
(* branch by the residuals, and the Root Solution.                         *)
(***************************************************************************)
\* H2O: kg -> g, CO2: kg -> mg.
scale(wqc_data, wue) ==
    [wqc |-> WQCData(Mul(wqc_data.wq, Dec(1, 3)), Mul(wqc_data.wc, Dec(1, 6)),
                     Mul(wqc_data.var_q, Dec(1, 6)), Mul(wqc_data.var_c, Dec(1, 12)),
                     wqc_data.corr_qc),
     wue |-> Mul(wue, Dec(1, 3))]

\* The trial root, with the exception raised in computing it ("" when
\* none): ValueError from a math.sqrt, ZeroDivisionError from a division.
root_values(sd_q, sd_c, var_cp, corr_cp_cr) ==
    [var_cp |-> var_cp, corr_cp_cr |-> corr_cp_cr,
     exc |-> FirstRaised(<<sd_q, sd_c, var_cp, corr_cp_cr>>)]

\* numer / denom of var_cp and of rho_sq, given the products
\* m2csd = -2 * corr_qc * sd_c * sd_q, mcsd = -corr_qc * sd_c * sd_q and
\* omc = -(corr_qc ** 2 - 1) * var_c * var_q.
quotients(q, wue, m2csd, mcsd, omc) ==
    The({<<Div(numer1, denom1), Div(numer2, denom2)>> :
            numer1 \in {Mul(Add(Mul(Mul(m2csd, q.wq), q.wc),
                                Add(Mul(q.var_c, Sq(q.wq)), Mul(q.var_q, Sq(q.wc)))),
                            Mul(omc, Sq(wue)))},
            denom1 \in {Sq(Add(Mul(mcsd, Add(q.wc, Mul(q.wq, wue))),
                               Add(Mul(q.var_c, q.wq), Mul(Mul(q.var_q, q.wc), wue))))},
            numer2 \in {Mul(omc, Sq(Sub(q.wc, Mul(q.wq, wue))))},
            denom2 \in {Mul(Add(Mul(Mul(m2csd, q.wc), q.wq),
                                Add(Mul(q.var_c, Sq(q.wq)), Mul(q.var_q, Sq(q.wc)))),
                            Add(Add(Mul(m2csd, wue), q.var_c), Mul(q.var_q, Sq(wue))))}})

\* var_cp and corr_cp_cr = -math.sqrt(rho_sq) from the two quotients.
root_of_quotients(sd_q, sd_c, qs) == root_values(sd_q, sd_c, qs[1], Neg(Sqrt(qs[2])))

\* The closed form of (corr_cp_cr, var_cp), given the standard deviations.
closed_form(s, sd_q, sd_c) ==
    The({root_of_quotients(sd_q, sd_c, quotients(s.wqc, s.wue, m2csd, mcsd, omc)) :
            m2csd \in {Mul(Mul(Mul(Num(-2), s.wqc.corr_qc), sd_c), sd_q)},
            mcsd \in {Mul(Mul(Neg(s.wqc.corr_qc), sd_c), sd_q)},
            omc \in {Mul(Mul(Neg(Sub(Sq(s.wqc.corr_qc), One)), s.wqc.var_c), s.wqc.var_q)}})

\* (corr_cp_cr, var_cp) from the scaled quantities s.
trial_root(s) ==
    The({closed_form(s, sd_q, sd_c) :
            sd_q \in {Sqrt(s.wqc.var_q)}, sd_c \in {Sqrt(s.wqc.var_c)}})

\* Whether both residuals of the CO2 branch id are within tol at the trial
\* root t.
branch_ok(s, t, id) ==
    WithinTol(residual_func(t.corr_cp_cr, t.var_cp, s.wqc, s.wue, id))

\* A faulty variant of first_id: branch 0 selected without its test.
first_id_untested(ok0) == 0

\* The value of co2soln_id after the first residual test.
first_id(ok0) == IF ok0 THEN 0 ELSE None

\* assert not co2soln_id, reached when the second residual test succeeds:
\* None and 0 are both false.
assert_holds(co2soln_id) == co2soln_id = None \/ co2soln_id = 0

\* A faulty variant of payload: the root values dropped.
payload_dropped(t, sig_cr) == [corr_cp_cr |-> NaN, var_cp |-> NaN, sig_cr |-> NaN]

\* The root values of the returned RootSoln, back in SI units.
payload(t, sig_cr) ==
    [corr_cp_cr |-> t.corr_cp_cr, var_cp |-> Mul(t.var_cp, Dec(1, -12)),
     sig_cr |-> Mul(sig_cr, Dec(1, -6))]

\* The outcome of a findroot call that raised the exception named exc.
raised_soln(exc) ==
    [corr_cp_cr |-> NaN, var_cp |-> NaN, sig_cr |-> NaN,
     co2soln_id |-> None, isvalid |-> FALSE, mssg |-> "", exc |-> exc]

\* sig_cr of the branch co2soln_id, NaN when no branch was selected.
sig_cr_of(s, t, co2soln_id) ==
    IF co2soln_id # None
    THEN The({Div(Mul(wcr_ov_wcp, Sqrt(t.var_cp)), t.corr_cp_cr) :
                 wcr_ov_wcp \in {flux_ratio(t.var_cp, t.corr_cp_cr, s.wqc, "co2",
                                            co2soln_id)}})
    ELSE NaN

\* The return statement of findroot; a sig_cr that raised is the exception
\* of the call.
returned_soln(t, bounds, co2soln_id, sig_cr) ==
    IF Raised(sig_cr) THEN raised_soln(sig_cr.k)
    ELSE payload(t, sig_cr) @@
         [co2soln_id |-> co2soln_id,
          isvalid |-> co2soln_id # None,
          mssg |-> IF ~bounds.isvalid THEN bounds.mssg
                   ELSE IF co2soln_id # None THEN ""
                   ELSE "Trial root did not satisfy equations",
          exc |-> ""]

\* findroot from the selection of the branch co2soln_id on.
soln_of_branch(s, t, bounds, co2soln_id) ==
    The({returned_soln(t, bounds, co2soln_id, sig_cr) :
            sig_cr \in {sig_cr_of(s, t, co2soln_id)}})

\* The Root Solution, or the exception raised: exc names the exception
\* ("" when findroot returns).  ok0, ok1: whether the bounds check and the
\* residual test of branch 0, 1 succeeded.
root_soln(s, t, bounds, ok0, ok1) ==
    IF ok1 /\ ~assert_holds(first_id(ok0)) THEN raised_soln("AssertionError")
    ELSE soln_of_branch(s, t, bounds, IF ok1 THEN 1 ELSE first_id(ok0))

\* The residual tests of the residuals r0 and r1 of the two branches.
test_residuals(s, t, bounds, r0, r1) ==
    IF bounds.isvalid /\ FirstRaised(<<r0[1], r0[2], r1[1], r1[2]>>) # ""
    THEN raised_soln(FirstRaised(<<r0[1], r0[2], r1[1], r1[2]>>))
    ELSE root_soln(s, t, bounds, bounds.isvalid /\ WithinTol(r0),
                   bounds.isvalid /\ WithinTol(r1))

\* The residuals are computed, and tested, only when the bounds check
\* succeeded.
select_branch(s, t, bounds) ==
    test_residuals(s, t, bounds,
                   residual_func(t.corr_cp_cr, t.var_cp, s.wqc, s.wue, 0),
                   residual_func(t.corr_cp_cr, t.var_cp, s.wqc, s.wue, 1))

\* The trial root that raised ends the call; the others are checked.
check_root(s, t) ==
    IF t.exc # "" THEN raised_soln(t.exc)
    ELSE select_branch(s, t, isvalid_root(t.corr_cp_cr, t.var_cp))

solve_scaled(s) == The({check_root(s, t) : t \in {trial_root(s)}})

findroot(wqc_data, wue) == The({solve_scaled(s) : s \in {scale(wqc_data, wue)}})

(***************************************************************************)
(* _mass_fluxes: the flux components of a (var_cp, corr_cp_cr) pair, from  *)
(* the SI quantities.  A division that raises leaves its exception in the  *)
(* component it was to give and in those computed from it: the call        *)
(* raised.                                                                 *)
(***************************************************************************)
\* A faulty variant of fluxes_of_ratio: the evaporation flux with its sign
\* reversed.
fluxes_of_ratio_wqe_reversed(wcr_ov_wcp, wqc_data, wue) ==
    LET wcp == Div(wqc_data.wc, Add(wcr_ov_wcp, One))
        wcr == Sub(wqc_data.wc, wcp)
        wqt == Div(wcp, wue)
        wqe == Sub(wqt, wqc_data.wq)
    IN  [Fq |-> wqc_data.wq, Fqt |-> wqt, Fqe |-> wqe,
         Fc |-> wqc_data.wc, Fcp |-> wcp, Fcr |-> wcr]

\* The flux components, given wcp and wqt.
MassFluxes(wqc_data, wcp, wqt) ==
    [Fq |-> wqc_data.wq, Fqt |-> wqt, Fqe |-> Sub(wqc_data.wq, wqt),
     Fc |-> wqc_data.wc, Fcp |-> wcp, Fcr |-> Sub(wqc_data.wc, wcp)]

\* The flux components, given wcp.
fluxes_of_wcp(wcp, wqc_data, wue) == MassFluxes(wqc_data, wcp, Div(wcp, wue))

fluxes_of_ratio(wcr_ov_wcp, wqc_data, wue) ==
    fluxes_of_wcp(Div(wqc_data.wc, Add(wcr_ov_wcp, One)), wqc_data, wue)

mass_fluxes(var_cp, corr_cp_cr, wqc_data, wue, co2soln_id) ==
    The({fluxes_of_ratio(wcr_ov_wcp, wqc_data, wue) :
            wcr_ov_wcp \in {flux_ratio(var_cp, corr_cp_cr, wqc_data, "co2", co2soln_id)}})

\* A faulty variant of isvalid_partition: the message names the first
\* violated constraint only.
isvalid_partition_first_only(fc) ==
    [isvalid |-> ~Le(fc.Fqt, Zero) /\ ~Le(fc.Fqe, Zero)
                 /\ ~Ge(fc.Fcp, Zero) /\ ~Le(fc.Fcr, Zero),
     mssg |-> IF Le(fc.Fqt, Zero) THEN "Fqt <= 0; "
              ELSE IF Le(fc.Fqe, Zero) THEN "Fqe <= 0; "
              ELSE IF Ge(fc.Fcp, Zero) THEN "Fcp >= 0; "
              ELSE IF Le(fc.Fcr, Zero) THEN "Fcr <= 0; "
              ELSE ""]

\* The result of _isvalid_partition, given which of its four tests failed.
partition_check(bad_Fqt, bad_Fqe, bad_Fcp, bad_Fcr) ==
    [isvalid |-> ~bad_Fqt /\ ~bad_Fqe /\ ~bad_Fcp /\ ~bad_Fcr,
     mssg |-> (IF bad_Fqt THEN "Fqt <= 0; " ELSE "")
              \o (IF bad_Fqe THEN "Fqe <= 0; " ELSE "")
              \o (IF bad_Fcp THEN "Fcp >= 0; " ELSE "")
              \o (IF bad_Fcr THEN "Fcr <= 0; " ELSE "")]

\* _isvalid_partition: the sign check of the partitioned fluxes.
isvalid_partition(fc) ==
    partition_check(Le(fc.Fqt, Zero), Le(fc.Fqe, Zero), Ge(fc.Fcp, Zero),
                    Le(fc.Fcr, Zero))

\* _adjust_fluxes: the partitioned fluxes rescaled to the totals Fq_tot, Fc_tot.
\* The adjusted flux components, given the adjusted Fqt, Fqe and Fcp.
adjusted(Fq_tot, Fc_tot, Fqt, Fqe, Fcp) ==
    [Fq |-> Fq_tot, Fqt |-> Fqt, Fqe |-> Fqe, Fc |-> Fc_tot, Fcp |-> Fcp,
     Fcr |-> Sub(Fc_tot, Fcp)]

adjust_from_Fqt(wue, Fq_tot, Fc_tot, Fqt, Fqe) ==
    adjusted(Fq_tot, Fc_tot, Fqt, Fqe, Mul(wue, Fqt))

adjust_from_Fqe(wue, Fq_tot, Fc_tot, Fqe) ==
    adjust_from_Fqt(wue, Fq_tot, Fc_tot, Sub(Fq_tot, Fqe), Fqe)

adjust_fluxes(fc, wue, Fq_tot, Fc_tot) ==
    adjust_from_Fqe(wue, Fq_tot, Fc_tot,
                    Add(fc.Fqe, Mul(Sub(Fq_tot, Add(fc.Fqe, fc.Fqt)),
                                    Div(fc.Fqe, Add(fc.Fqt, fc.Fqe)))))

\* FVSPResult(...); wave_lvl is set by fvspart_progressive only.  exc is the
\* exception that ended the call ("" when it returned).
FVSPResult(wqc_data, rootsoln, fluxes, valid_partition, mssg) ==
    [wqc_data |-> wqc_data, rootsoln |-> rootsoln, fluxes |-> fluxes,
     valid_partition |-> valid_partition, mssg |-> mssg, wave_lvl |-> <<None, None>>,
     exc |-> rootsoln.exc]

(***************************************************************************)
(* fvspart_interval                                                        *)
(***************************************************************************)
\* The exception raised by _mass_fluxes in computing fc, "" when none.
fluxes_raised(fc) == FirstRaised(<<fc.Fcp, fc.Fcr, fc.Fqt, fc.Fqe>>)

\* The outcome of a call that raised the exception named exc after the
\* root was found.
raised_result(wqc_data, rootsoln, exc) ==
    [FVSPResult(wqc_data, rootsoln, MassFluxesDefault, FALSE, "")
        EXCEPT !.exc = exc]

\* The result for a valid root with the reconstructed fluxes mass_fluxes.
result_of_check(wqc_data, rootsoln, mass_fluxes0, wipe_if_invalid, chk) ==
    FVSPResult(wqc_data, rootsoln,
               IF ~chk.isvalid /\ wipe_if_invalid THEN MassFluxesDefault
               ELSE mass_fluxes0,
               chk.isvalid, chk.mssg)

checked_result(wqc_data, rootsoln, mass_fluxes0, wipe_if_invalid) ==
    IF fluxes_raised(mass_fluxes0) # ""
    THEN raised_result(wqc_data, rootsoln, fluxes_raised(mass_fluxes0))
    ELSE result_of_check(wqc_data, rootsoln, mass_fluxes0, wipe_if_invalid,
                         isvalid_partition(mass_fluxes0))

\* fvspart_interval after the root is found.
partition_root(wqc_data, wue, wipe_if_invalid, rootsoln) ==
    IF ~rootsoln.isvalid
    THEN FVSPResult(wqc_data, rootsoln, MassFluxesDefault, FALSE, rootsoln.mssg)
    ELSE checked_result(wqc_data, rootsoln,
                        mass_fluxes(rootsoln.var_cp, rootsoln.corr_cp_cr, wqc_data,
                                    wue, rootsoln.co2soln_id),
                        wipe_if_invalid)

fvspart_interval(wqc_data, wue, wipe_if_invalid) ==
    The({partition_root(wqc_data, wue, wipe_if_invalid, rootsoln) :
            rootsoln \in {findroot(wqc_data, wue)}})

(***************************************************************************)
(* fvspart_series.  The series w, q, c enter through their sample          *)
(* covariance matrix cov = np.cov([w, q, c]): cov.wq = cov[0,1],           *)
(* cov.wc = cov[0,2], cov.var_q = cov[1,1], cov.var_c = cov[2,2],          *)
(* cov.qc = cov[1,2].  The call of fvspart_interval passes no              *)
(* wipe_if_invalid, which therefore takes its default, False.              *)
(***************************************************************************)
fvspart_series(cov, wue, wipe_if_invalid) ==
    The({fvspart_interval(WQCData(cov.wq, cov.wc, cov.var_q, cov.var_c, corr_qc),
                          wue, FALSE) :
            corr_qc \in {Div(cov.qc, Sqrt(Mul(cov.var_q, cov.var_c)))}})

(***************************************************************************)
(* Inputs.  A tuple <<u, <<a, b, vq, vc, cn, cd>>>> stands for             *)
(* wue = u e-3 and the covariances wq = a e-3, wc = b e-6, var_q = vq e-6, *)
(* var_c = vc e-12 and the correlation corr_qc = cn / cd: each the double  *)
(* that Python reads from the literal.                                     *)
(***************************************************************************)
Curated ==
    { <<-5, <<1, -3, 1, 9, 1, 2>>>>,    <<-5, <<1, -1, 1, 1, -3, 5>>>>,
      <<-5, <<1, -3, 1, 1, -1, 2>>>>,   <<-5, <<1, -1, 1, 25, -3, 5>>>>,
      <<-5, <<-3, 3, 1, 25, -3, 5>>>>,  <<-5, <<1, -4, 4, 25, -1, 2>>>>,
      <<-5, <<-4, -2, 1, 1, -1, 2>>>>,  <<-5, <<-4, 0, 1, 9, -3, 5>>>>,
      <<-2, <<-2, 4, 1, 1, -3, 5>>>>,   <<-2, <<1, -1, 4, 1, 1, 2>>>>,
      <<-2, <<2, -1, 1, 1, -3, 5>>>>,   <<-2, <<-2, 1, 1, 1, -3, 5>>>>,
      <<-2, <<-6, 6, 9, 9, -1, 2>>>>,   <<-2, <<1, -4, 4, 25, -4, 5>>>>,
      <<-2, <<-4, -3, 4, 1, 1, 2>>>>,   <<-2, <<1, -1, 1, 1, -1, 2>>>>,
      <<-10, <<2, -4, 1, 100, -3, 5>>>>, <<10, <<2, -4, 1, 100, -3, 5>>>> }

\* The numbers a caller gives to findroot and fvspart_interval: Python
\* floats, or numpy float64 scalars.

\* The Covariance Summary of the tuple t, in numbers of the type ty.
SummaryOf(t, ty) ==
    WQCData(Typed(Dec(t[1], -3), ty), Typed(Dec(t[2], -6), ty),
            Typed(Dec(t[3], -6), ty), Typed(Dec(t[4], -12), ty),
            Typed(Div(Num(t[5]), Num(t[6])), ty))

\* The Covariance Summaries given to fvspart_interval and findroot, with
\* wue, in numbers of either type.
IntervalInputs ==
    {[wqc_data |-> SummaryOf(p[2], ty), wue |-> Typed(Dec(p[1], -3), ty)] :
        p \in Curated, ty \in {"float", "float64"}}

\* The entries of np.cov([w, q, c]), numpy float64 scalars: the covariance
\* of q and c is corr_qc * sqrt(var_q * var_c).
CovOfSummary(d) ==
    [wq |-> d.wq, wc |-> d.wc, var_q |-> d.var_q, var_c |-> d.var_c,
     qc |-> Mul(d.corr_qc, Sqrt(Mul(d.var_q, d.var_c)))]

\* The covariance matrices of the series given to fvspart_series, with wue.
SeriesInputs == {[cov |-> CovOfSummary(SummaryOf(p[2], "float64")), wue |-> Dec(p[1], -3)] : p \in Curated}

WueSet == {i.wue : i \in SeriesInputs}

\* The covariance matrices a filtered level of a series can have.
LevelCovs(wue) == {i.cov : i \in {j \in SeriesInputs : j.wue = wue}}

\* The values of a flux component given to _isvalid_partition: negative,
\* zero, positive (kg/m^2/s) and NaN, the default of MassFluxes.
FluxValues == {Dec(-2, -3), Zero, Dec(3, -3), NaN}

\* The flux components given to _isvalid_partition.
FluxInputs ==
    {[Fq |-> Add(qt, qe), Fqt |-> qt, Fqe |-> qe,
      Fc |-> Add(cp, cr), Fcp |-> cp, Fcr |-> cr] :
        qt \in FluxValues, qe \in FluxValues, cp \in FluxValues, cr \in FluxValues}

\* The longest series.
MaxN == 8

\* The lengths of the series given to fvspart_progressive.  Four samples
\* are the fewest whose filtered triples have covariances free of one
\* another (two samples always have corr_qc = 1 or -1).
Lengths == 4..MaxN

(***************************************************************************)
(* The progressive filter                                                  *)
(***************************************************************************)
\* int(np.log2(n)) for n >= 1
RECURSIVE Log2(_)
Log2(n) == IF n < 2 THEN 0 ELSE 1 + Log2(n \div 2)

\* Whether truncating a series of n samples to 2 ** int(np.log2(n))
\* samples drops nothing.
RECURSIVE IsPow2(_)
IsPow2(n) == n = 1 \/ (n % 2 = 0 /\ IsPow2(n \div 2))

\* The number of filtered triples _progressive_lowcut yields for series of
\* length n: one per decomposition level 0..log2(n).
NumLevels(n) == Log2(n) + 1

\* What fvspart_series returns for the filtered triples a level can have,
\* by wue.
SeriesResults ==
    [wue \in WueSet |->
        {fvspart_series(cov, wue, FALSE) : cov \in LevelCovs(wue)}]

\* What fvspart_series can return for the filtered triple number cnt.  The
\* first triple has only the mean removed, and so the covariances of the
\* series itself when no sample is truncated (n a power of two).
YieldResults(cnt, n, wue, wq_tot, wc_tot) ==
    {f \in SeriesResults[wue] :
        cnt = 0 /\ IsPow2(n) => f.wqc_data.wq = wq_tot /\ f.wqc_data.wc = wc_tot}

(***************************************************************************)
(* State                                                                   *)
(***************************************************************************)
VARIABLES
    pc,     \* "idle": no call made; "loop": in the loop of
            \* fvspart_progressive; "done": the call has ended
    api,    \* the function called
    arg,    \* its arguments
    cnt,    \* fvspart_progressive: the number of triples taken from the generator
    fvsp,   \* fvspart_progressive: the working FVSPResult
    tried,  \* fvspart_progressive: one record per level examined
    ret,    \* the value returned (or the exception raised)
    dataframe,  \* HFData.dataframe
    already_corrected_external  \* HFData._already_corrected_external

vars == <<pc, api, arg, cnt, fvsp, tried, ret, dataframe,
          already_corrected_external>>

Nil == [nil |-> TRUE]

Init ==
    /\ pc = "idle"
    /\ api = "none"
    /\ arg = Nil
    /\ cnt = 0
    /\ fvsp = Nil
    /\ tried = <<>>
    /\ ret = Nil
    /\ dataframe = Nil
    /\ already_corrected_external = FALSE

call_findroot ==
    \E i \in IntervalInputs :
        /\ pc = "idle"
        /\ pc' = "done"
        /\ api' = "findroot"
        /\ arg' = [wqc_data |-> i.wqc_data, wue |-> i.wue]
        /\ ret' = findroot(i.wqc_data, i.wue)
        /\ UNCHANGED <<cnt, fvsp, tried, dataframe, already_corrected_external>>

call_fvspart_interval ==
    \E i \in IntervalInputs, wipe \in BOOLEAN :
        /\ pc = "idle"
        /\ pc' = "done"
        /\ api' = "fvspart_interval"
        /\ arg' = [wqc_data |-> i.wqc_data, wue |-> i.wue,
                   wipe_if_invalid |-> wipe]
        /\ ret' = fvspart_interval(i.wqc_data, i.wue, wipe)
        /\ UNCHANGED <<cnt, fvsp, tried, dataframe, already_corrected_external>>

call_fvspart_series ==
    \E i \in SeriesInputs, wipe \in BOOLEAN :
        /\ pc = "idle"
        /\ pc' = "done"
        /\ api' = "fvspart_series"
        /\ arg' = [cov |-> i.cov, wue |-> i.wue, wipe_if_invalid |-> wipe]
        /\ ret' = fvspart_series(i.cov, i.wue, wipe)
        /\ UNCHANGED <<cnt, fvsp, tried, dataframe, already_corrected_external>>

call_isvalid_partition ==
    \E fc \in FluxInputs :
      \E chk \in {isvalid_partition(fc)} :
        /\ pc = "idle"
        /\ pc' = "done"
        /\ api' = "_isvalid_partition"
        /\ arg' = [fc |-> fc]
        /\ ret' = [isvalid |-> chk.isvalid, mssg |-> chk.mssg, exc |-> ""]
        /\ UNCHANGED <<cnt, fvsp, tried, dataframe, already_corrected_external>>

\* fvspart_progressive up to its loop: the series has n samples and the
\* covariances wq_tot = cov(w,q), wc_tot = cov(w,c).
call_fvspart_progressive ==
    \E n \in Lengths, wue \in WueSet, adjust \in BOOLEAN :
      \E tot \in LevelCovs(wue) :
        /\ pc = "idle"
        /\ pc' = "loop"
        /\ api' = "fvspart_progressive"
        /\ arg' = [n |-> n, wue |-> wue, adjust_fluxes |-> adjust,
                   max_decomp_lvl |-> Log2(n), wq_tot |-> tot.wq, wc_tot |-> tot.wc]
        /\ cnt' = 0
        /\ UNCHANGED <<fvsp, tried, ret, dataframe, already_corrected_external>>

\* The working result with the adjusted fluxes adj and their check chk.
with_fluxes(f0, adj, chk) ==
    [f0 EXCEPT !.fluxes = adj, !.valid_partition = chk.isvalid, !.mssg = chk.mssg]

\* The adjusted fluxes are checked again.
recheck(f0, adj) == with_fluxes(f0, adj, isvalid_partition(adj))

\* The outcome of an iteration that leaves the working result f1.
loop_outcome(f0, f1, wave_lvl) ==
    [fvsp |-> f1, wave_lvl |-> wave_lvl,
     break |-> f0.rootsoln.isvalid /\ f1.valid_partition]

\* A faulty variant of loop_body: the low level counted up from zero.
loop_body_lvl_from_zero(f0, a, count) ==
    loop_outcome(f0,
                 IF f0.rootsoln.isvalid /\ a.adjust_fluxes
                 THEN recheck(f0, adjust_fluxes(f0.fluxes, a.wue, a.wq_tot, a.wc_tot))
                 ELSE f0,
                 <<count, a.max_decomp_lvl>>)

\* The body of the loop, f0 being what fvspart_series returned for the
\* filtered triple number count.
loop_body(f0, a, count) ==
    loop_outcome(f0,
                 IF f0.rootsoln.isvalid /\ a.adjust_fluxes
                 THEN recheck(f0, adjust_fluxes(f0.fluxes, a.wue, a.wq_tot, a.wc_tot))
                 ELSE f0,
                 <<a.max_decomp_lvl - count, a.max_decomp_lvl>>)

\* A faulty variant of after_loop: the fluxes of an invalid result are kept.
after_loop_keeping_fluxes(f, wave_lvl) ==
    LET f1 == [f EXCEPT !.wave_lvl = wave_lvl]
    IN  IF ~f1.rootsoln.isvalid
        THEN [f1 EXCEPT !.valid_partition = FALSE, !.mssg = f1.rootsoln.mssg]
        ELSE f1

\* The statements after the loop.
after_loop(f, wave_lvl) ==
    LET f1 == [f EXCEPT !.wave_lvl = wave_lvl]
        f2 == IF ~f1.rootsoln.isvalid
              THEN [f1 EXCEPT !.valid_partition = FALSE, !.mssg = f1.rootsoln.mssg]
              ELSE f1
    IN  IF ~f2.valid_partition THEN [f2 EXCEPT !.fluxes = MassFluxesDefault] ELSE f2

\* A faulty variant of loop_ends: the loop without its break statement.
loop_ends_without_break(brk, count, n) == count + 1 >= NumLevels(n)

\* Whether the loop ends with the triple number count: by break, or because
\* the generator is exhausted.
loop_ends(brk, count, n) == brk \/ count + 1 >= NumLevels(n)

\* One iteration of the loop of fvspart_progressive and, when it is the
\* last, the statements after the loop and the return.
iterate ==
    /\ pc = "loop"
    /\ \E f0 \in YieldResults(cnt, arg.n, arg.wue, arg.wq_tot, arg.wc_tot) :
       \E b \in {loop_body(f0, arg, cnt)} :
         LET raised == f0.exc # ""
             last == raised \/ loop_ends(b.break, cnt, arg.n)
         IN  /\ fvsp' = b.fvsp
             /\ cnt' = cnt + 1
             /\ tried' = Append(tried, [lvl |-> cnt, pre |-> f0.valid_partition,
                                        ok |-> b.break])
             /\ pc' = IF last THEN "done" ELSE "loop"
             /\ ret' = IF raised THEN f0
                       ELSE IF last THEN after_loop(b.fvsp, b.wave_lvl)
                       ELSE ret
    /\ UNCHANGED <<api, arg, dataframe, already_corrected_external>>

Next ==
    \/ call_findroot
    \/ call_fvspart_interval
    \/ call_fvspart_series
    \/ call_isvalid_partition
    \/ call_fvspart_progressive
    \/ iterate

Spec == Init /\ [][Next]_vars

(***************************************************************************)
(* HFData (hfdata.py).  A dataframe is a sequence of records (rows); a row *)
(* has the seven data columns u, v, w, c, q, T, P, which are its first     *)
(* seven columns, and after them the flag columns, flags.  A data value is *)
(* a number or NaN (null); a flag is True when the record is flagged bad.  *)
(* HFData.dataframe is [none |-> FALSE, rows |-> the rows], or NoFrame     *)
(* when it is None.                                                        *)
(***************************************************************************)
\* HFDataReader.var_names: the names of the first seven columns.
var_names == <<"u", "v", "w", "c", "q", "T", "P">>

NoFrame == [none |-> TRUE, rows |-> <<>>]

Frame(rows) == [none |-> FALSE, rows |-> rows]

\* data.iloc[:, :7].isnull().any(axis=1), for one row
isnull_any(row) == \E i \in 1..7 : IsNaN(row[var_names[i]])

\* data.iloc[:, 7:].any(axis=1), for one row
flags_any(row) == \E i \in 1..Len(row.flags) : row.flags[i]

\* (data[var] < low) | (data[var] > high) for some var of bounds, for one
\* row.  bounds is a set of <<var, low, high>>.
out_of_bounds(row, bounds) ==
    \E b \in bounds : Lt(row[b[1]], b[2]) \/ Gt(row[b[1]], b[3])

\* The 1D mask: True for a row if any data are nan, any flag is True, or
\* any data are out of bounds.
mask(data, bounds) ==
    [i \in 1..Len(data) |->
        isnull_any(data[i]) \/ flags_any(data[i]) \/ out_of_bounds(data[i], bounds)]

\* The last index of the run of unmasked rows that starts at i.
RECURSIVE run_end(_, _)
run_end(m, i) == IF i < Len(m) /\ ~m[i + 1] THEN run_end(m, i + 1) ELSE i

\* np.ma.clump_unmasked: the slices [start, stop) of the runs of unmasked
\* rows from row i on, in order.
RECURSIVE clump_from(_, _)
clump_from(m, i) ==
    IF i > Len(m) THEN <<>>
    ELSE IF m[i] THEN clump_from(m, i + 1)
    ELSE <<[start |-> i - 1, stop |-> run_end(m, i)]>>
         \o clump_from(m, run_end(m, i) + 1)

\* np.ma.clump_unmasked(marray) or [slice(0, 0)]
unmasked_slices(m) ==
    IF clump_from(m, 1) = <<>> THEN <<[start |-> 0, stop |-> 0]>>
    ELSE clump_from(m, 1)

\* np.argmax: the first index of the largest length.
argmax(slices) ==
    CHOOSE i \in 1..Len(slices) :
        /\ \A j \in 1..Len(slices) :
              slices[j].stop - slices[j].start <= slices[i].stop - slices[i].start
        /\ \A j \in 1..(i - 1) :
              slices[j].stop - slices[j].start < slices[i].stop - slices[i].start

\* cleanse up to data_frac (lines 233 to 251): the outcomes it can have,
\* each the exception raised, or "" with the longest span max_slice and
\* data_frac.  When self.dataframe is None, data.iloc raises
\* AttributeError.  With no row at all, np.ma.clump_unmasked indexes an
\* empty mask, and len_max_slice / data.shape[0] divides 0 by 0: an
\* exception of the library or of the division ends the call.
longest_span(df, bounds) ==
    IF df.none THEN {[exc |-> "AttributeError"]}
    ELSE IF Len(df.rows) = 0
    THEN {[exc |-> e] : e \in {"IndexError", "ZeroDivisionError"}}
    ELSE {The({[exc |-> "", max_slice |-> max_slice,
                data_frac |-> Div(Num(max_slice.stop - max_slice.start),
                                  Num(Len(df.rows)))] :
                  max_slice \in {slices[argmax(slices)]}}) :
             slices \in {unmasked_slices(mask(df.rows, bounds))}}

\* The rest of cleanse (lines 252 to 257), span being an outcome of
\* longest_span: the new self.dataframe and the exception raised ("" when
\* it returns).  An exception raised before leaves self.dataframe untouched.
verify_length(df, span, rd_tol, ad_tol) ==
    IF span.exc # "" THEN [dataframe |-> df, exc |-> span.exc]
    ELSE IF \/ Lt(span.data_frac, rd_tol)
            \/ span.max_slice.stop - span.max_slice.start < ad_tol
    THEN [dataframe |-> NoFrame, exc |-> "TooFewDataError"]
    ELSE [dataframe |-> Frame(SubSeq(df.rows, span.max_slice.start + 1,
                                     span.max_slice.stop)),
          exc |-> ""]

\* HFData.truncate_pow2: the new self.dataframe and the exception raised.
\* With no row, np.log2(0) is -inf and int(-inf) raises OverflowError.
truncate_pow2(df) ==
    IF df.none THEN [dataframe |-> df, exc |-> "AttributeError"]
    ELSE IF Len(df.rows) = 0 THEN [dataframe |-> df, exc |-> "OverflowError"]
    ELSE [dataframe |-> Frame(SubSeq(df.rows, 1, 2 ^ Log2(Len(df.rows)))),
          exc |-> ""]

\* HFData.__setitem__: self.dataframe.loc[:, name] = value, value a scalar.
setitem(df, name, value) ==
    IF df.none THEN [dataframe |-> df, exc |-> "AttributeError"]
    ELSE [dataframe |-> Frame([i \in 1..Len(df.rows) |->
                                  [df.rows[i] EXCEPT ![name] = float64(value)]]),
          exc |-> ""]

\* Series.mean() of the column name: the sum of the values that are not
\* null, taken in the order of the rows, over their number; NaN when there
\* is none.
RECURSIVE nansum(_, _, _)
nansum(data, name, n) ==
    IF n = 0 THEN float64(Zero)
    ELSE IF IsNaN(data[n][name]) THEN nansum(data, name, n - 1)
    ELSE Add(nansum(data, name, n - 1), data[n][name])

mean(data, name) ==
    IF \A i \in 1..Len(data) : IsNaN(data[i][name]) THEN float64(NaN)
    ELSE Div(nansum(data, name, Len(data)),
             float64(Num(Cardinality({i \in 1..Len(data) : ~IsNaN(data[i][name])}))))

\* The two assignments self["q"] += ... and self["c"] += ... of
\* correct_external, rho being rho_totair and mu being MW.dryair / MW.vapor;
\* (1 + muq) * ave_vapor and (1 + muq) * ave_co2 are scalars, computed
\* before the series are.
corrected(data, ave_vapor, ave_co2, ave_T, rho, mu) ==
    The({The({[i \in 1..Len(data) |->
                  The({[data[i] EXCEPT
                          !.q = Add(data[i].q, Add(Mul(muq, dev_vapor),
                                                   Div(Mul(kq, dev_T), ave_T))),
                          !.c = Add(data[i].c, Add(Mul(muc, dev_vapor),
                                                   Div(Mul(kc, dev_T), ave_T)))] :
                          dev_vapor \in {Sub(data[i].q, ave_vapor)},
                          dev_T \in {Sub(data[i].T, ave_T)}})] :
                 kq \in {Mul(Add(One, muq), ave_vapor)},
                 kc \in {Mul(Add(One, muq), ave_co2)}}) :
            muq \in {Mul(mu, Div(ave_vapor, rho))},
            muc \in {Mul(mu, Div(ave_co2, rho))}})

\* HFData.correct_external: the new self.dataframe, the new
\* self._already_corrected_external and the exception raised.  GC and MW are
\* SPECIFIC_GAS_CONSTANT and MOLECULAR_WEIGHT of fluxpart.constants, the
\* configuration the package gives to the correction.
correct_external(df, already, GC, MW) ==
    IF already THEN [dataframe |-> df, already |-> TRUE, exc |-> ""]
    ELSE IF df.none THEN [dataframe |-> df, already |-> FALSE, exc |-> "AttributeError"]
    ELSE The({[dataframe |->
                  Frame(corrected(df.rows, ave_vapor, ave_co2, ave_T,
                                  Add(ave_vapor,
                                      Div(Div(Sub(ave_P, Mul(Mul(ave_vapor, GC.vapor),
                                                             ave_T)),
                                              GC.dryair),
                                          ave_T)),
                                  Div(MW.dryair, MW.vapor))),
               already |-> TRUE, exc |-> ""] :
                 ave_vapor \in {mean(df.rows, "q")}, ave_co2 \in {mean(df.rows, "c")},
                 ave_T \in {mean(df.rows, "T")}, ave_P \in {mean(df.rows, "P")}})

\* A row with the given q, P and flag, the other data being good.
Row(q, P, flag) ==
    [u |-> float64(Num(5)), v |-> float64(Num(5)), w |-> float64(Num(5)),
     c |-> float64(Num(5)), q |-> float64(q), T |-> float64(Num(5)),
     P |-> float64(P), flags |-> <<flag>>]

\* The rows of the dataframes: q = 8, q = 1, P null, flagged.
Rows ==
    { Row(Num(8), Num(5), FALSE), Row(Num(1), Num(5), FALSE),
      Row(Num(5), NaN, FALSE),    Row(Num(5), Num(5), TRUE) }

\* The most rows of a dataframe.
MaxRows == 4

RECURSIVE SeqsUpTo(_, _)
SeqsUpTo(S, n) ==
    IF n = 0 THEN {<<>>}
    ELSE SeqsUpTo(S, n - 1) \cup {Append(q, x) : q \in SeqsUpTo(S, n - 1), x \in S}

\* The state after HFData(dataframe).
InitHF ==
    /\ pc = "idle"
    /\ api = "none"
    /\ arg = Nil
    /\ cnt = 0
    /\ fvsp = Nil
    /\ tried = <<>>
    /\ ret = Nil
    /\ dataframe \in {Frame(rows) : rows \in SeqsUpTo(Rows, MaxRows)}
    /\ already_corrected_external = FALSE

\* The end of a call of a method of HFData.
called(name, a, out) ==
    /\ pc' = "done"
    /\ api' = name
    /\ arg' = a
    /\ dataframe' = out.dataframe
    /\ ret' = [exc |-> out.exc]
    /\ UNCHANGED <<cnt, fvsp, tried>>

\* cleanse(bounds, rd_tol, ad_tol), with bounds none; or q in [2, 8], q = 8
\* being on the upper bound and q = 1 below the lower; or q in [1, 5], q = 1
\* being on the lower bound and q = 8 above the upper.
call_cleanse ==
    \E bounds \in { {}, {<<"q", Num(2), Num(8)>>}, {<<"q", Num(1), Num(5)>>} } :
      \E span \in longest_span(dataframe, bounds) :
        \E rd_tol \in {Zero, Dec(5, -1), One}, ad_tol \in {0, 2} :
            /\ called("cleanse", [data |-> dataframe.rows, none |-> dataframe.none,
                                  bounds |-> bounds, rd_tol |-> rd_tol,
                                  ad_tol |-> ad_tol],
                      verify_length(dataframe, span, rd_tol, ad_tol))
            /\ UNCHANGED already_corrected_external

\* correct_external(), under a configuration of fluxpart.constants:
\* specific gas constants (J/kg/K) and molecular weights (kg/mol).
call_correct_external ==
    \E GC \in {[dryair |-> Dec(28704, -2), vapor |-> Dec(4615, -1)]},
       MW \in {[dryair |-> Dec(289645, -7), vapor |-> Dec(18016, -6)]} :
      \E out \in {correct_external(dataframe, already_corrected_external, GC, MW)} :
        /\ called("correct_external", Nil, out)
        /\ already_corrected_external' = out.already

call_truncate_pow2 ==
    /\ called("truncate_pow2", Nil, truncate_pow2(dataframe))
    /\ UNCHANGED already_corrected_external

\* self[name] = value
call_setitem ==
    \E name \in {"q"}, value \in {Num(5)} :
        /\ called("__setitem__", [name |-> name, value |-> value],
                  setitem(dataframe, name, value))
        /\ UNCHANGED already_corrected_external

NextHF ==
    \/ call_cleanse
    \/ call_correct_external
    \/ call_truncate_pow2
    \/ call_setitem

SpecHF == InitHF /\ [][NextHF]_vars

(***************************************************************************)
(* Properties                                                              *)
(***************************************************************************)
Progressive == api = "fvspart_progressive"

Returned == pc = "done" /\ ret.exc = ""

\* C1: fvspart_progressive examines the decomposition levels 0, 1, 2, ... in
\* this order, at most log2(N)+1 of them, and none after the first that
\* yields a valid partition: when it returns, the levels examined are 0..m
\* with m the least level that validates, or all of 0..log2(N) when none
\* validates.
C1_LevelsInOrder ==
    Progressive =>
        /\ Len(tried) = cnt
        /\ Len(tried) <= Log2(arg.n) + 1
        /\ \A i \in 1..Len(tried) : tried[i].lvl = i - 1
        /\ \A i \in 1..(Len(tried) - 1) : ~tried[i].ok
        /\ pc = "loop" /\ tried # <<>> => ~tried[Len(tried)].ok
        /\ pc = "done" =>
              /\ tried # <<>>
              /\ tried[Len(tried)].ok \/ Len(tried) = Log2(arg.n) + 1
              /\ ret.valid_partition = tried[Len(tried)].ok

\* The call returned at level 1 of the levels 0..2, level 0 not validating.
C1_Witness ==
    /\ Progressive /\ Returned
    /\ arg.n = 4
    /\ Len(tried) = 2
    /\ ~tried[1].ok /\ tried[2].ok
    /\ ret.wave_lvl = <<1, 2>>

\* The calls that return a Partition Result.
Partitioned ==
    Returned /\ api \in {"fvspart_interval", "fvspart_series", "fvspart_progressive"}

SignsRight(fc) ==
    Gt(fc.Fqt, Zero) /\ Gt(fc.Fqe, Zero) /\ Lt(fc.Fcp, Zero) /\ Gt(fc.Fcr, Zero)

AllNaN(fc) ==
    /\ IsNaN(fc.Fq) /\ IsNaN(fc.Fqt) /\ IsNaN(fc.Fqe)
    /\ IsNaN(fc.Fc) /\ IsNaN(fc.Fcp) /\ IsNaN(fc.Fcr)

SomeNaN(fc) == IsNaN(fc.Fqt) \/ IsNaN(fc.Fqe) \/ IsNaN(fc.Fcp) \/ IsNaN(fc.Fcr)

\* C2: every Partition Result returned with valid_partition = True, by
\* fvspart_interval, fvspart_series or fvspart_progressive, has Fqt > 0,
\* Fqe > 0, Fcp < 0 and Fcr > 0.
C2_ValidHasSigns ==
    Partitioned /\ ret.valid_partition => SignsRight(ret.fluxes)

\* C3: when no level validates, fvspart_progressive returns the result of
\* the last level attempted, level log2(N), with valid_partition = False and
\* the six mass fluxes NaN, whatever adjust_fluxes is and whether the last
\* level failed at the root or at the sign check.
C3_Exhaustion ==
    Progressive /\ Returned /\ (\A i \in 1..Len(tried) : ~tried[i].ok) =>
        /\ Len(tried) = Log2(arg.n) + 1
        /\ ret.wave_lvl = <<0, Log2(arg.n)>>
        /\ ret.wqc_data = fvsp.wqc_data
        /\ ret.rootsoln = fvsp.rootsoln
        /\ ret.valid_partition = FALSE
        /\ AllNaN(ret.fluxes)

\* Exhaustion of the levels 0..3, the last failing at the sign check after
\* adjustment, with fluxes that were not NaN.
C3_Witness ==
    /\ Progressive /\ Returned
    /\ arg.adjust_fluxes
    /\ Len(tried) = 4
    /\ \A i \in 1..4 : ~tried[i].ok
    /\ fvsp.rootsoln.isvalid /\ ~SomeNaN(fvsp.fluxes)
    /\ AllNaN(ret.fluxes) /\ ~ret.valid_partition

\* Whether a equals b to within 1e-12 of the magnitude of b.
Within(a, b) == Le(AbsN(Sub(a, b)), Mul(Dec(1, -12), AbsN(b)))

\* C4: every valid Partition Result of fvspart_progressive with
\* adjust_fluxes = True has Fqt + Fqe = cov(w,q) and Fcp + Fcr = cov(w,c),
\* the covariances of the original series, to within 1e-12 relative.
C4_TotalsConserved ==
    Progressive /\ Returned /\ arg.adjust_fluxes /\ ret.valid_partition =>
        /\ Within(Add(ret.fluxes.Fqt, ret.fluxes.Fqe), arg.wq_tot)
        /\ Within(Add(ret.fluxes.Fcp, ret.fluxes.Fcr), arg.wc_tot)

\* C5: fvspart_progressive returns a level as valid only if the
\* fluxes reconstructed at that level pass the sign check before adjustment
\* and, when adjust_fluxes, after it.
C5_PreAndPostChecked ==
    Progressive /\ Returned /\ ret.valid_partition =>
        /\ tried[Len(tried)].pre
        /\ isvalid_partition(ret.fluxes).isvalid

\* Whether the bounds check and the residual tests of both CO2 branches
\* succeed for the arguments of the findroot call.
BothBranchesOk ==
    \E s \in {scale(arg.wqc_data, arg.wue)} :
        \E t \in {trial_root(s)} :
            /\ isvalid_root(t.corr_cp_cr, t.var_cp).isvalid
            /\ branch_ok(s, t, 0)
            /\ branch_ok(s, t, 1)

\* C6: when the trial root passes the bounds check and the residuals of both
\* CO2 branches are within tolerance, findroot halts with an assertion
\* failure and returns no Root Solution.
C6_BothBranchesAssert ==
    pc = "done" /\ api = "findroot" /\ BothBranchesOk => ret.exc = "AssertionError"

\* C7: no Partition Result in which Fqt, Fqe, Fcp or Fcr is NaN is marked
\* valid.
C7_NaNFluxInvalid ==
    Partitioned /\ SomeNaN(ret.fluxes) => ~ret.valid_partition

\* C8: with wipe_if_invalid = True, when the reconstructed fluxes fail the
\* sign check, fvspart_series and fvspart_interval return NaN for the six
\* mass fluxes.
C8_WipeIfInvalid ==
    /\ Returned /\ api \in {"fvspart_interval", "fvspart_series"}
    /\ arg.wipe_if_invalid
    /\ ret.rootsoln.isvalid /\ ~ret.valid_partition
    => AllNaN(ret.fluxes)

\* C9: for every Root Solution returned by findroot, isvalid holds exactly
\* when co2soln_id is 0 or 1 (it is None otherwise); a valid one has
\* var_cp > 0, -1 < corr_cp_cr < 0 and the residuals of its branch within
\* tolerance; an invalid one has a message, which is "Trial root did not
\* satisfy equations" when the bounds check passed.
C9_RootSolnInvariants ==
    pc = "done" /\ api = "findroot" /\ ret.exc = "" =>
        \E s \in {scale(arg.wqc_data, arg.wue)} :
        \E t \in {trial_root(s)} :
            /\ ret.isvalid <=> ret.co2soln_id \in {0, 1}
            /\ ~ret.isvalid => ret.co2soln_id = None
            /\ ret.isvalid =>
                  /\ Gt(ret.var_cp, Zero)
                  /\ Lt(Num(-1), ret.corr_cp_cr) /\ Lt(ret.corr_cp_cr, Zero)
                  /\ branch_ok(s, t, ret.co2soln_id)
            /\ ~ret.isvalid =>
                  /\ ret.mssg # ""
                  /\ isvalid_root(t.corr_cp_cr, t.var_cp).isvalid =>
                        /\ ~branch_ok(s, t, 0) /\ ~branch_ok(s, t, 1)
                        /\ ret.mssg = "Trial root did not satisfy equations"

\* An invalid Root Solution whose trial root passed the bounds check and
\* failed both residual tests.
C9_Witness ==
    /\ pc = "done" /\ api = "findroot"
    /\ ~ret.isvalid /\ ret.co2soln_id = None
    /\ Gt(ret.var_cp, Zero) /\ Lt(Num(-1), ret.corr_cp_cr) /\ Lt(ret.corr_cp_cr, Zero)
    /\ ret.mssg = "Trial root did not satisfy equations"

\* C10, as stated: every invalid Root Solution returned by findroot has NaN
\* in corr_cp_cr, var_cp and sig_cr.
C10_InvalidPayloadNaN ==
    pc = "done" /\ api = "findroot" /\ ret.exc = "" /\ ~ret.isvalid =>
        IsNaN(ret.corr_cp_cr) /\ IsNaN(ret.var_cp) /\ IsNaN(ret.sig_cr)

\* C10, amended: every invalid Root Solution returned by findroot has NaN
\* in sig_cr and None in co2soln_id, and carries in corr_cp_cr and var_cp
\* the trial root that was rejected (var_cp in SI units).
C10_InvalidKeepsTrialRoot ==
    pc = "done" /\ api = "findroot" /\ ret.exc = "" /\ ~ret.isvalid =>
        \E t \in {trial_root(scale(arg.wqc_data, arg.wue))} :
            /\ IsNaN(ret.sig_cr)
            /\ ret.co2soln_id = None
            /\ ret.corr_cp_cr = t.corr_cp_cr
            /\ ret.var_cp = Mul(t.var_cp, Dec(1, -12))

\* An invalid Root Solution, rejected by the residual tests, whose
\* corr_cp_cr and var_cp are finite.
C10_Witness ==
    /\ pc = "done" /\ api = "findroot"
    /\ ~ret.isvalid
    /\ IsNaN(ret.sig_cr)
    /\ ret.corr_cp_cr.k = "fin" /\ ret.var_cp.k = "fin"

\* C11: for flux components that are each negative, zero or positive,
\* _isvalid_partition returns valid exactly when Fqt > 0, Fqe > 0, Fcp < 0
\* and Fcr > 0, and its message is made of one token for each violated
\* constraint, in the order Fqt, Fqe, Fcp, Fcr, and of nothing else.
C11_AllViolationsListed ==
    pc = "done" /\ api = "_isvalid_partition" /\ ~SomeNaN(arg.fc) =>
        LET qt == Sign(arg.fc.Fqt)
            qe == Sign(arg.fc.Fqe)
            cp == Sign(arg.fc.Fcp)
            cr == Sign(arg.fc.Fcr)
        IN  /\ ret.isvalid <=> (qt = 1 /\ qe = 1 /\ cp = -1 /\ cr = 1)
            /\ ret.isvalid <=> ret.mssg = ""
            /\ ret.mssg = (IF qt = 1 THEN "" ELSE "Fqt <= 0; ")
                           \o (IF qe = 1 THEN "" ELSE "Fqe <= 0; ")
                           \o (IF cp = -1 THEN "" ELSE "Fcp >= 0; ")
                           \o (IF cr = 1 THEN "" ELSE "Fcr <= 0; ")

\* Two constraints violated, neither of them the first, and both named.
C11_Witness ==
    /\ pc = "done" /\ api = "_isvalid_partition"
    /\ Sign(arg.fc.Fqt) = 1 /\ Sign(arg.fc.Fqe) = 0
    /\ Sign(arg.fc.Fcp) = -1 /\ Sign(arg.fc.Fcr) = -1
    /\ ~ret.isvalid
    /\ ret.mssg = "Fqe <= 0; Fcr <= 0; "

\* The Covariance Summary wq = 2e-3, wc = -4e-6, var_q = 1e-6, var_c = 1e-10,
\* corr_qc = -0.6.
IsScenario(d) ==
    /\ Eq(d.wq, Dec(2, -3)) /\ Eq(d.wc, Dec(-4, -6))
    /\ Eq(d.var_q, Dec(1, -6)) /\ Eq(d.var_c, Dec(1, -10))
    /\ Eq(d.corr_qc, Dec(-6, -1))

\* A call of findroot, or of fvspart_interval with wipe_if_invalid left
\* False, on the scenario with wue = u e-3.
ScenarioCall(f, u) ==
    /\ pc = "done" /\ api = f
    /\ IsScenario(arg.wqc_data) /\ Eq(arg.wue, Dec(u, -3))
    /\ f = "fvspart_interval" => ~arg.wipe_if_invalid

\* C12, as stated: on the scenario with wue = -10e-3, findroot returns a
\* valid root with var_cp > 0 and -1 < corr_cp_cr < 0 and the fluxes
\* reconstructed by fvspart_interval have Fqt > 0, Fqe > 0, Fcp < 0, Fcr > 0,
\* so that the Partition Result is valid; with wue = +10e-3 the Partition
\* Result is invalid.
C12_ScenarioValid ==
    /\ ScenarioCall("findroot", -10) =>
          /\ ret.exc = "" /\ ret.isvalid
          /\ Gt(ret.var_cp, Zero)
          /\ Lt(Num(-1), ret.corr_cp_cr) /\ Lt(ret.corr_cp_cr, Zero)
    /\ ScenarioCall("fvspart_interval", -10) =>
          /\ ret.exc = "" /\ ret.rootsoln.isvalid
          /\ SignsRight(ret.fluxes)
          /\ ret.valid_partition
    /\ ScenarioCall("fvspart_interval", 10) =>
          ret.exc = "" /\ ~ret.valid_partition

\* C12, amended: on the scenario with wue = -10e-3, findroot returns a valid
\* root with var_cp > 0 and -1 < corr_cp_cr < 0, and the fluxes reconstructed
\* by fvspart_interval have Fqt > 0, Fcp < 0, Fcr > 0 but Fqe < 0, so that the
\* Partition Result is invalid with the message "Fqe <= 0; "; with
\* wue = +10e-3 the Partition Result is invalid.
C12_ScenarioEvaporationNegative ==
    /\ ScenarioCall("findroot", -10) =>
          /\ ret.exc = "" /\ ret.isvalid
          /\ Gt(ret.var_cp, Zero)
          /\ Lt(Num(-1), ret.corr_cp_cr) /\ Lt(ret.corr_cp_cr, Zero)
    /\ ScenarioCall("fvspart_interval", -10) =>
          /\ ret.exc = "" /\ ret.rootsoln.isvalid
          /\ Gt(ret.fluxes.Fqt, Zero) /\ Lt(ret.fluxes.Fqe, Zero)
          /\ Lt(ret.fluxes.Fcp, Zero) /\ Gt(ret.fluxes.Fcr, Zero)
          /\ ~ret.valid_partition
          /\ ret.mssg = "Fqe <= 0; "
    /\ ScenarioCall("fvspart_interval", 10) =>
          ret.exc = "" /\ ~ret.valid_partition

\* fvspart_interval has returned for the scenario with wue = -10e-3: the
\* root is valid, the transpiration exceeds the total vapour flux and the
\* evaporation is negative.
C12_Witness ==
    /\ ScenarioCall("fvspart_interval", -10)
    /\ ret.rootsoln.isvalid /\ ret.rootsoln.co2soln_id = 0
    /\ Gt(ret.fluxes.Fqt, ret.fluxes.Fq)
    /\ Lt(ret.fluxes.Fqe, Zero)
    /\ ~ret.valid_partition

\* Whether record i of the dataframe given to cleanse is bad: one of its
\* seven data values is null, a flag is true, or a bounded variable is
\* outside [low, high].
BadRecord(i) ==
    LET r == arg.data[i]
    IN  \/ \E nm \in {"u", "v", "w", "c", "q", "T", "P"} : IsNaN(r[nm])
        \/ \E k \in 1..Len(r.flags) : r.flags[k]
        \/ \E b \in arg.bounds : ~(Le(b[2], r[b[1]]) /\ Le(r[b[1]], b[3]))

\* Whether the records first..last of that dataframe are all good.
GoodRun(first, last) == \A i \in first..last : ~BadRecord(i)

\* The length of the longest contiguous run of good records.
LongestGoodRun ==
    CHOOSE len \in 0..Len(arg.data) :
        /\ \E first \in 1..(Len(arg.data) - len + 1) : GoodRun(first, first + len - 1)
        /\ \A more \in (len + 1)..Len(arg.data) :
              \A first \in 1..(Len(arg.data) - more + 1) :
                  ~GoodRun(first, first + more - 1)

\* C13: cleanse either raises TooFewDataError, exactly when the longest
\* contiguous run of good records is shorter than ad_tol records or is a
\* fraction of all records smaller than rd_tol, and then leaves
\* self.dataframe None; or else returns and leaves in self.dataframe a
\* longest contiguous run of good records.
C13_CleanseKeepsLongestRun ==
    pc = "done" /\ api = "cleanse" /\ ~arg.none =>
        /\ ret.exc \in {"", "TooFewDataError"}
        /\ ret.exc = "TooFewDataError" <=>
              \/ LongestGoodRun < arg.ad_tol
              \/ Lt(Div(Num(LongestGoodRun), Num(Len(arg.data))), arg.rd_tol)
        /\ ret.exc = "TooFewDataError" => dataframe.none
        /\ ret.exc = "" =>
              /\ ~dataframe.none
              /\ Len(dataframe.rows) = LongestGoodRun
              /\ \E first \in 1..(Len(arg.data) - LongestGoodRun + 1) :
                    /\ GoodRun(first, first + LongestGoodRun - 1)
                    /\ dataframe.rows =
                          SubSeq(arg.data, first, first + LongestGoodRun - 1)

\* C14: the level pair returned by fvspart_progressive is
\* wave_lvl = (k - n, k), with k = floor(log2(N)) and n the zero-based index
\* of the attempt whose result is returned, the last one made; it has
\* 0 <= low <= high = k, is (k, k) when the first attempt validates and
\* (0, k) on exhaustion; the wqc_data and the rootsoln returned are those of
\* attempt n.
C14_WaveLvlOfReturnedAttempt ==
    Progressive /\ Returned =>
        LET k == Log2(arg.n)
            n == Len(tried) - 1
        IN  /\ n >= 0 /\ tried[n + 1].lvl = n
            /\ ret.wave_lvl = <<k - n, k>>
            /\ 0 <= ret.wave_lvl[1] /\ ret.wave_lvl[1] <= ret.wave_lvl[2]
            /\ tried[1].ok => ret.wave_lvl = <<k, k>>
            /\ (\A i \in 1..Len(tried) : ~tried[i].ok) => ret.wave_lvl = <<0, k>>
            /\ ret.wqc_data = fvsp.wqc_data
            /\ ret.rootsoln = fvsp.rootsoln

\* A series of 8 samples (k = 3) for which the third attempt (n = 2) is the
\* first to validate: the level pair returned is (1, 3).
C14_Witness ==
    /\ Progressive /\ Returned
    /\ arg.n = 8
    /\ Len(tried) = 3 /\ tried[3].ok
    /\ ret.valid_partition
    /\ ret.wave_lvl = <<1, 3>>

====
